---- MODULE Spec2Model ----
(***************************************************************************)
(* Model of the Intel GPU controller of the LACT daemon                    *)
(* (lact-daemon/src/server/gpu_controller/intel.rs).                       *)
(*                                                                         *)
(* Spec        the controller being constructed and then polled with       *)
(*             get_stats: the two rate trackers, the power cap, the VRAM   *)
(*             figures.  The files the kernel exports are read anew by     *)
(*             every call, so their contents are inputs of each call.      *)
(* SpecConfig  apply_config and reset_clocks over a file tree that only    *)
(*             these two operations write.                                 *)
(* SpecVram    get_vram_info over the results of the memory-region query.  *)
(***************************************************************************)
EXTENDS Integers, Sequences, FiniteSets, TLC

\* Option: None is the empty tuple and Some(x) the tuple of x alone
None == <<>>

Some(x) == <<x>>

Unwrap(o) == o[1]

(***************************************************************************)
(* Bounds of the model.                                                    *)
(***************************************************************************)
\* u64 is modelled with U64Bits bits: arithmetic is modulo 2^U64Bits
U64Bits == 20

\* the time between two polls, in milliseconds
PollPeriod == 50

\* the reading of the "GPU busy?" counter after a period, in milliseconds
BigCount == 29

\* readings of an energy counter, in microjoules
MaxEnergy == 2

U64Mod == 2 ^ U64Bits

\* the readings of the monotonic clock, in milliseconds
Instants == {0, PollPeriod}

BusyCounters == {0, BigCount}

EnergyCounters == 0..MaxEnergy

(***************************************************************************)
(* u64 arithmetic.  An overflowing operation panics in a build with        *)
(* overflow checks (the debug profile) and wraps otherwise (the release    *)
(* profile).  A result is [panic |-> BOOLEAN, value |-> number].           *)
(***************************************************************************)
U64Sub(a, b, checks) ==
    IF a >= b THEN [panic |-> FALSE, value |-> a - b]
    ELSE IF checks THEN [panic |-> TRUE, value |-> 0]
    ELSE [panic |-> FALSE, value |-> a - b + U64Mod]

U64Mul(a, b, checks) ==
    IF a * b < U64Mod THEN [panic |-> FALSE, value |-> a * b]
    ELSE IF checks THEN [panic |-> TRUE, value |-> 0]
    ELSE [panic |-> FALSE, value |-> (a * b) % U64Mod]

(***************************************************************************)
(* IEEE 754 binary64 arithmetic on positive values, round to nearest even. *)
(* A value is [bits |-> the 53 bits of the significand, most significant   *)
(* first and equal to 1, exp |-> the exponent of that first bit].          *)
(***************************************************************************)
RECURSIVE BitsNat(_)
BitsNat(b) == IF Len(b) = 0 THEN 0 ELSE 2 * BitsNat(SubSeq(b, 1, Len(b) - 1)) + b[Len(b)]

BitLen(n) == IF n = 0 THEN 0 ELSE CHOOSE L \in 1..30 : 2 ^ (L - 1) <= n /\ n < 2 ^ L

NatBits(n) == [i \in 1..BitLen(n) |-> (n \div (2 ^ (BitLen(n) - i))) % 2]

\* long arithmetic is done on limbs of LimbBits bits
LimbBits == 13

LimbBase == 2 ^ LimbBits

\* the first k limbs of the fraction r / d (r < d), and the remainder left
RECURSIVE FracLimbs(_, _, _, _)
FracLimbs(r, d, k, acc) ==
    IF k = 0 THEN [limbs |-> acc, rem |-> r]
    ELSE FracLimbs((r * LimbBase) % d, d, k - 1, Append(acc, (r * LimbBase) \div d))

LimbsToBits(limbs) ==
    [j \in 1..(LimbBits * Len(limbs)) |->
        (limbs[((j - 1) \div LimbBits) + 1] \div (2 ^ (LimbBits - 1 - ((j - 1) % LimbBits)))) % 2]

BitsToLimbs(bits) ==
    LET n == (Len(bits) + LimbBits - 1) \div LimbBits
        padded == [i \in 1..(n * LimbBits - Len(bits)) |-> 0] \o bits
    IN  [i \in 1..n |-> BitsNat(SubSeq(padded, LimbBits * (i - 1) + 1, LimbBits * i))]

RECURSIVE MulLimbs(_, _, _, _)
MulLimbs(limbs, k, carry, acc) ==
    IF Len(limbs) = 0 THEN <<carry>> \o acc
    ELSE LET t == limbs[Len(limbs)] * k + carry
         IN  MulLimbs(SubSeq(limbs, 1, Len(limbs) - 1), k, t \div LimbBase, <<t % LimbBase>> \o acc)

StripZeros(bits) ==
    IF \A i \in 1..Len(bits) : bits[i] = 0 THEN <<>>
    ELSE LET p == CHOOSE i \in 1..Len(bits) : bits[i] = 1 /\ \A j \in 1..(i - 1) : bits[j] = 0
         IN  SubSeq(bits, p, Len(bits))

IncBits(b) ==
    IF \A i \in 1..Len(b) : b[i] = 1
    THEN [i \in 1..(Len(b) + 1) |-> IF i = 1 THEN 1 ELSE 0]
    ELSE LET p == CHOOSE i \in 1..Len(b) : b[i] = 0 /\ \A j \in (i + 1)..Len(b) : b[j] = 1
         IN  [i \in 1..Len(b) |-> IF i < p THEN b[i] ELSE IF i = p THEN 1 ELSE 0]

\* the exact value bits * 2^exp (first bit 1; sticky: a non-zero rest below
\* the bits given) rounded to 53 bits, ties to even
F64Round(bits, exp, sticky) ==
    IF Len(bits) <= 53 THEN [bits |-> bits \o [i \in 1..(53 - Len(bits)) |-> 0], exp |-> exp]
    ELSE LET m == SubSeq(bits, 1, 53)
             up == bits[54] = 1 /\ (sticky \/ m[53] = 1 \/ \E i \in 55..Len(bits) : bits[i] = 1)
         IN  IF ~up THEN [bits |-> m, exp |-> exp]
             ELSE IF \A i \in 1..53 : m[i] = 1
                  THEN [bits |-> SubSeq(IncBits(m), 1, 53), exp |-> exp + 1]
                  ELSE [bits |-> IncBits(m), exp |-> exp]

\* n as f64 / d as f64, for integers n, d > 0 (both conversions are exact)
F64Div(n, d) ==
    LET s == IF n >= d THEN 0 ELSE CHOOSE k \in 1..30 : (2 ^ k) * n >= d /\ (2 ^ (k - 1)) * n < d
        ip == NatBits((n * (2 ^ s)) \div d)
        fr == FracLimbs((n * (2 ^ s)) % d, d, 5, <<>>)
    IN  F64Round(ip \o LimbsToBits(fr.limbs), Len(ip) - 1 - s, fr.rem # 0)

\* x * k for an f64 x > 0 and an integer k > 0 that f64 holds exactly
F64MulNat(x, k) ==
    LET p == StripZeros(LimbsToBits(MulLimbs(BitsToLimbs(x.bits), k, 0, <<>>)))
    IN  F64Round(p, x.exp + (Len(p) - Len(x.bits)), FALSE)

\* x as u8: the integer part, saturating at 255
F64ToU8(x) ==
    IF x.exp < 0 THEN 0
    ELSE IF x.exp >= 8 THEN 255
    ELSE BitsNat(SubSeq(x.bits, 1, x.exp + 1))

\* ((delta as f64 / millis as f64) * 100.0) as u8; x / 0.0 is an infinity
\* (255 as u8) and 0.0 / 0.0 a NaN (0 as u8)
BusyPercentage(delta, millis) ==
    IF millis = 0 THEN (IF delta = 0 THEN 0 ELSE 255)
    ELSE IF delta = 0 THEN 0
    ELSE F64ToU8(F64MulNat(F64Div(delta, millis), 100))

(***************************************************************************)
(* Text.  A string is a sequence of one-character strings, so that the     *)
(* prefix, suffix, trimming and parsing rules of the code can be applied   *)
(* to it.                                                                  *)
(***************************************************************************)
Digits == <<"0", "1", "2", "3", "4", "5", "6", "7", "8", "9">>

\* the characters of file names, in byte order
ByteOrder ==
    <<"0", "1", "2", "3", "4", "5", "6", "7", "8", "9", "_",
      "a", "b", "c", "d", "e", "f", "g", "h", "i", "j", "k", "l", "m",
      "n", "o", "p", "q", "r", "s", "t", "u", "v", "w", "x", "y", "z">>

Byte(c) == CHOOSE i \in 1..Len(ByteOrder) : ByteOrder[i] = c

IsDigit(c) == \E i \in 1..10 : Digits[i] = c

DigitValue(c) == (CHOOSE i \in 1..10 : Digits[i] = c) - 1

IsSpace(c) == c \in {" ", "\n", "\t"}

\* str::strip_prefix, str::strip_suffix: the rest, or None
strip_prefix(s, p) ==
    IF Len(s) >= Len(p) /\ SubSeq(s, 1, Len(p)) = p
    THEN Some(SubSeq(s, Len(p) + 1, Len(s))) ELSE None

strip_suffix(s, p) ==
    IF Len(s) >= Len(p) /\ SubSeq(s, Len(s) - Len(p) + 1, Len(s)) = p
    THEN Some(SubSeq(s, 1, Len(s) - Len(p))) ELSE None

contains(s, c) == \E i \in 1..Len(s) : s[i] = c

\* str::trim
trim(s) ==
    IF \A i \in 1..Len(s) : IsSpace(s[i]) THEN <<>>
    ELSE LET a == CHOOSE i \in 1..Len(s) : ~IsSpace(s[i]) /\ \A j \in 1..(i - 1) : IsSpace(s[j])
             b == CHOOSE i \in 1..Len(s) : ~IsSpace(s[i]) /\ \A j \in (i + 1)..Len(s) : IsSpace(s[j])
         IN  SubSeq(s, a, b)

\* str::split_ascii_whitespace().last(): the last run of non-space characters
split_ascii_whitespace_last(s) ==
    IF \A i \in 1..Len(s) : IsSpace(s[i]) THEN None
    ELSE LET b == CHOOSE i \in 1..Len(s) : ~IsSpace(s[i]) /\ \A j \in (i + 1)..Len(s) : IsSpace(s[j])
             a == CHOOSE i \in 1..b : (\A j \in i..b : ~IsSpace(s[j])) /\ (i = 1 \/ IsSpace(s[i - 1]))
         IN  Some(SubSeq(s, a, b))

\* the value of a string of digits
RECURSIVE DigitsNat(_)
DigitsNat(s) ==
    IF Len(s) = 0 THEN 0
    ELSE 10 * DigitsNat(SubSeq(s, 1, Len(s) - 1)) + DigitValue(s[Len(s)])

\* str::parse::<u64>: an optional '+' and at least one digit, the value in
\* the range of u64
parse_u64(s) ==
    LET d == IF Len(s) > 0 /\ s[1] = "+" THEN SubSeq(s, 2, Len(s)) ELSE s
    IN  IF Len(d) = 0 \/ Len(d) > 9 \/ \E i \in 1..Len(d) : ~IsDigit(d[i]) THEN None
        ELSE IF DigitsNat(d) >= U64Mod THEN None
        ELSE Some(DigitsNat(d))

\* str::parse::<f64> of the texts the model holds: a text of digits is that
\* number, any other text of the model is no number
parse_f64(s) ==
    IF Len(s) = 0 \/ Len(s) > 9 \/ \E i \in 1..Len(s) : ~IsDigit(s[i]) THEN None
    ELSE Some(DigitsNat(s))

\* str::parse::<T> for the types the controller reads; a String is the text
parse(s, T) ==
    IF T = "String" THEN Some(s)
    ELSE IF T \in {"f64", "f32"} THEN parse_f64(s) ELSE parse_u64(s)

\* ToString for a non-negative integer
RECURSIVE to_string(_)
to_string(n) ==
    IF n < 10 THEN <<Digits[n + 1]>>
    ELSE to_string(n \div 10) \o <<Digits[(n % 10) + 1]>>

\* the text of a sysfs attribute holding n
Attr(n) == to_string(n) \o <<"\n">>

\* a text that is no number
Garbage == <<"N", "/", "A", "\n">>

\* the content of a file that is not UTF-8: fs::read_to_string fails on it
NotUtf8 == <<"0xFF">>

(***************************************************************************)
(* The hwmon directory: None when the controller has no hwmon_path (or the *)
(* directory cannot be listed), else a function from file names to texts.  *)
(***************************************************************************)
s_power == <<"p", "o", "w", "e", "r">>

s_energy == <<"e", "n", "e", "r", "g", "y">>

s_input == <<"_", "i", "n", "p", "u", "t">>

s_max == <<"_", "m", "a", "x">>

s_rated_max == <<"_", "r", "a", "t", "e", "d", "_", "m", "a", "x">>

power1_input == <<"p", "o", "w", "e", "r", "1", "_", "i", "n", "p", "u", "t">>

power1_max == <<"p", "o", "w", "e", "r", "1", "_", "m", "a", "x">>

power1_max_alarm == <<"p", "o", "w", "e", "r", "1", "_", "m", "a", "x", "_", "a", "l", "a", "r", "m">>

power1_rated_max == <<"p", "o", "w", "e", "r", "1", "_", "r", "a", "t", "e", "d", "_", "m", "a", "x">>

energy1_input == <<"e", "n", "e", "r", "g", "y", "1", "_", "i", "n", "p", "u", "t">>

energy2_input == <<"e", "n", "e", "r", "g", "y", "2", "_", "i", "n", "p", "u", "t">>

s_temp == <<"t", "e", "m", "p">>

temp1_input == <<"t", "e", "m", "p", "1", "_", "i", "n", "p", "u", "t">>

temp2_input == <<"t", "e", "m", "p", "2", "_", "i", "n", "p", "u", "t">>

temp10_input == <<"t", "e", "m", "p", "1", "0", "_", "i", "n", "p", "u", "t">>

temp1_crit == <<"t", "e", "m", "p", "1", "_", "c", "r", "i", "t">>

power2_max == <<"p", "o", "w", "e", "r", "2", "_", "m", "a", "x">>

\* Ord for the paths of one directory: byte-wise lexicographic order
PathLess(a, b) ==
    \E i \in 1..(Len(a) + 1) :
        /\ i <= Len(b)
        /\ \A j \in 1..(i - 1) : a[j] = b[j]
        /\ (i = Len(a) + 1 \/ Byte(a[i]) < Byte(b[i]))

\* files.sort_unstable()
RECURSIVE sort_unstable(_)
sort_unstable(files) ==
    IF files = {} THEN <<>>
    ELSE LET first == CHOOSE f \in files : \A g \in files \ {f} : PathLess(f, g)
         IN  <<first>> \o sort_unstable(files \ {first})

\* name.strip_prefix(file_prefix).and_then(|name| name.strip_suffix(file_suffix))
AndThenStripSuffix(stripped, file_suffix) ==
    IF stripped = None THEN None ELSE strip_suffix(Unwrap(stripped), file_suffix)

NoSeparator(infix) == infix # None /\ ~contains(Unwrap(infix), "_")

\* the names the loops of read_hwmon_files and write_hwmon_file push
HwmonSelect(dir, file_prefix, file_suffix) ==
    {name \in DOMAIN dir :
        NoSeparator(AndThenStripSuffix(strip_prefix(name, file_prefix), file_suffix))}

\* read_file on a file of the directory: the parsed text, None when the
\* file is missing, cannot be read, or its trimmed text does not parse
read_file(dir, path, T) ==
    IF path \in DOMAIN dir /\ dir[path] # NotUtf8 THEN parse(trim(dir[path]), T) ELSE None

\* filter_map over a sorted list of paths
RECURSIVE ReadAll(_, _, _)
ReadAll(dir, paths, T) ==
    IF Len(paths) = 0 THEN <<>>
    ELSE LET contents == read_file(dir, Head(paths), T)
         IN  (IF contents = None THEN <<>> ELSE <<<<Unwrap(contents), Head(paths)>>>>)
             \o ReadAll(dir, Tail(paths), T)

\* The same listing with the order of fs::read_dir explicit: entries is the
\* sequence of names read_dir yields.  HwmonPush is the loop that pushes the
\* matching names onto files, SortVec the sort of that Vec.
RECURSIVE HwmonPush(_, _, _)
HwmonPush(entries, file_prefix, file_suffix) ==
    IF Len(entries) = 0 THEN <<>>
    ELSE (IF NoSeparator(AndThenStripSuffix(strip_prefix(Head(entries), file_prefix),
                                            file_suffix))
          THEN <<Head(entries)>> ELSE <<>>)
         \o HwmonPush(Tail(entries), file_prefix, file_suffix)

\* f put into a sorted Vec, before the first element that is not less
InsertSorted(sorted, f) ==
    LET k == Cardinality({i \in 1..Len(sorted) : PathLess(sorted[i], f)})
    IN  SubSeq(sorted, 1, k) \o <<f>> \o SubSeq(sorted, k + 1, Len(sorted))

\* SortVec, but the Vec is left in the order of read_dir
SortVecSkipped(files) == files

RECURSIVE SortVec(_)
SortVec(files) ==
    IF Len(files) = 0 THEN <<>> ELSE InsertSorted(SortVec(Tail(files)), Head(files))

ListFiles(entries, dir, file_prefix, file_suffix, T) ==
    ReadAll(dir, SortVec(HwmonPush(entries, file_prefix, file_suffix)), T)

\* read_hwmon_files when read_dir yields the names of the directory as entries
read_hwmon_files_listed(entries, hwmon_dir, file_prefix, file_suffix, T) ==
    IF hwmon_dir = None THEN <<>>
    ELSE ListFiles(entries, Unwrap(hwmon_dir), file_prefix, file_suffix, T)

\* the (value, path) pairs of the matching files that parse, sorted by path;
\* the directory is taken as the set of its names, whatever their order
read_hwmon_files(hwmon, file_prefix, file_suffix, T) ==
    IF hwmon = None THEN <<>>
    ELSE ReadAll(Unwrap(hwmon),
                 sort_unstable(HwmonSelect(Unwrap(hwmon), file_prefix, file_suffix)), T)

read_hwmon_file(hwmon, file_prefix, file_suffix, T) ==
    LET files == read_hwmon_files(hwmon, file_prefix, file_suffix, T)
    IN  IF Len(files) = 0 THEN None ELSE Some(files[1][1])

(***************************************************************************)
(* get_temperatures: one (key, Temperature) pair per file of the listing   *)
(* of temp*_input, collected into a HashMap, a function from the keys.     *)
(***************************************************************************)
s_label == <<"_", "l", "a", "b", "e", "l">>

gpu == <<"g", "p", "u">>

\* an f32 number of degrees: the f32 nearest to millidegrees / 1000
Celsius(millidegrees) == [millidegrees |-> millidegrees]

\* the key of a listed file: the text of <base>_label, "gpu" without one
TempKey(dir, filename) ==
    LET base_filename == strip_suffix(filename, s_input)
        label == IF base_filename = None THEN None
                 ELSE read_file(dir, Unwrap(base_filename) \o s_label, "String")
    IN  IF label = None THEN gpu ELSE Unwrap(label)

\* the pairs the closure of map yields, in the order of the listing
TempEntries(dir, files) ==
    [i \in DOMAIN files |->
        <<TempKey(dir, files[i][2]),
          [current |-> Some(Celsius(files[i][1])), crit |-> None, crit_hyst |-> None]>>]

\* collect, but a key that is in the map keeps its value
RECURSIVE CollectFirstWins(_)
CollectFirstWins(entries) ==
    IF Len(entries) = 0 THEN <<>>
    ELSE LET map == CollectFirstWins(SubSeq(entries, 1, Len(entries) - 1))
             last == entries[Len(entries)]
         IN  [k \in DOMAIN map \cup {last[1]} |->
                 IF k \in DOMAIN map THEN map[k] ELSE last[2]]

\* Iterator::collect into a HashMap: the pairs are inserted in order, a pair
\* replaces the value an earlier pair has put under its key
RECURSIVE collect(_)
collect(entries) ==
    IF Len(entries) = 0 THEN <<>>
    ELSE LET map == collect(SubSeq(entries, 1, Len(entries) - 1))
             last == entries[Len(entries)]
         IN  [k \in DOMAIN map \cup {last[1]} |->
                 IF k = last[1] THEN last[2] ELSE map[k]]

get_temperatures(hwmon) ==
    IF hwmon = None THEN <<>>
    ELSE collect(TempEntries(Unwrap(hwmon),
                             read_hwmon_files(hwmon, s_temp, s_input, "f32")))

(***************************************************************************)
(* The rate trackers.  A stored sample is Some(<<timestamp, counter>>).    *)
(* Each operator returns the value the method returns (ret), the sample    *)
(* the Cell holds afterwards (last), the counter the call obtained (read)  *)
(* and whether the call panicked.                                          *)
(***************************************************************************)
s_gpu_busy == <<"G", "P", "U", " ", "b", "u", "s", "y", "?">>

s_ms == <<"m", "s">>

\* what a call returns when it leaves the tracker alone
Absent(last) == [panic |-> FALSE, ret |-> None, last |-> last, read |-> None]

\* the loop over the lines of gt0/rps_boost, from line i on; each step of a
\* line takes the value the step before it computed
RECURSIVE BusyLines(_, _, _, _, _)
BusySample(gpu_busy, gpu_busy_delta, last, timestamp) ==
    IF gpu_busy_delta.panic
    THEN [panic |-> TRUE, ret |-> None,
          last |-> Some(<<timestamp, gpu_busy>>), read |-> Some(gpu_busy)]
    ELSE [panic |-> FALSE,
          ret |-> Some(BusyPercentage(gpu_busy_delta.value, timestamp - Unwrap(last)[1])),
          last |-> Some(<<timestamp, gpu_busy>>), read |-> Some(gpu_busy)]

\* the first sample of the tracker: stored, and the loop goes on
BusySeed(gpu_busy, rest) ==
    [rest EXCEPT !.read = IF rest.read = None THEN Some(gpu_busy) ELSE rest.read]

BusyValue(gpu_busy, lines, i, last, timestamp, checks) ==
    IF gpu_busy = None THEN Absent(last)
    ELSE IF last = None
    THEN BusySeed(Unwrap(gpu_busy),
             BusyLines(lines, i + 1, Some(<<timestamp, Unwrap(gpu_busy)>>), timestamp, checks))
    ELSE BusySample(Unwrap(gpu_busy), U64Sub(Unwrap(gpu_busy), Unwrap(last)[2], checks),
                    last, timestamp)

BusyRaw(raw_value, lines, i, last, timestamp, checks) ==
    IF raw_value = None THEN Absent(last)
    ELSE BusyValue(parse_u64(Unwrap(raw_value)), lines, i, last, timestamp, checks)

BusyToken(token, lines, i, last, timestamp, checks) ==
    IF token = None THEN Absent(last)
    ELSE BusyRaw(strip_suffix(Unwrap(token), s_ms), lines, i, last, timestamp, checks)

BusyContents(contents, lines, i, last, timestamp, checks) ==
    IF contents = None THEN BusyLines(lines, i + 1, last, timestamp, checks)
    ELSE BusyToken(split_ascii_whitespace_last(Unwrap(contents)),
                   lines, i, last, timestamp, checks)

BusyLines(lines, i, last, timestamp, checks) ==
    IF i > Len(lines) THEN Absent(last)
    ELSE BusyContents(strip_prefix(lines[i], s_gpu_busy), lines, i, last, timestamp, checks)

\* file: None when gt0/rps_boost cannot be opened, else Some(its lines)
get_busy_percent(file, last, timestamp, checks) ==
    IF file = None THEN Absent(last)
    ELSE BusyLines(Unwrap(file), 1, last, timestamp, checks)

\* an f64 number of watts: the f64 nearest to microwatts / 1_000_000
Watts(microwatts) == [microwatts |-> microwatts]

\* the first non-zero value of a list of (value, path) pairs
RECURSIVE FindNonZero(_)
FindNonZero(files) ==
    IF Len(files) = 0 THEN None
    ELSE IF Head(files)[1] # 0 THEN Some(Head(files)[1])
    ELSE FindNonZero(Tail(files))

\* the energy path of get_power_usage, once a non-zero energy is read
EnergyRate(energy, energy_delta, time_delta, timestamp, checks) ==
    IF energy_delta.panic
    THEN [panic |-> TRUE, ret |-> None,
          last |-> Some(<<timestamp, energy>>), read |-> Some(energy)]
    ELSE IF time_delta = 0
    THEN [panic |-> FALSE, ret |-> None,
          last |-> Some(<<timestamp, energy>>), read |-> Some(energy)]
    ELSE IF U64Mul(energy_delta.value \div time_delta, 1000, checks).panic
    THEN [panic |-> TRUE, ret |-> None,
          last |-> Some(<<timestamp, energy>>), read |-> Some(energy)]
    ELSE [panic |-> FALSE,
          ret |-> Some(Watts(U64Mul(energy_delta.value \div time_delta, 1000, checks).value)),
          last |-> Some(<<timestamp, energy>>), read |-> Some(energy)]

\* PowerFromEnergy, but the first sample is reported as a rate of zero
PowerFromEnergyRateOnFirst(energy, last, timestamp, checks) ==
    IF energy = None THEN Absent(last)
    ELSE IF last = None
    THEN [panic |-> FALSE, ret |-> Some(Watts(0)),
          last |-> Some(<<timestamp, Unwrap(energy)>>), read |-> energy]
    ELSE EnergyRate(Unwrap(energy), U64Sub(Unwrap(energy), Unwrap(last)[2], checks),
                    timestamp - Unwrap(last)[1], timestamp, checks)

\* PowerFromEnergy, but only the first sample is stored
PowerFromEnergyKeepsBaseline(energy, last, timestamp, checks) ==
    IF energy = None THEN Absent(last)
    ELSE IF last = None
    THEN [panic |-> FALSE, ret |-> None,
          last |-> Some(<<timestamp, Unwrap(energy)>>), read |-> energy]
    ELSE [EnergyRate(Unwrap(energy), U64Sub(Unwrap(energy), Unwrap(last)[2], checks),
                     timestamp - Unwrap(last)[1], timestamp, checks)
             EXCEPT !.last = last]

PowerFromEnergy(energy, last, timestamp, checks) ==
    IF energy = None THEN Absent(last)
    ELSE IF last = None
    THEN [panic |-> FALSE, ret |-> None,
          last |-> Some(<<timestamp, Unwrap(energy)>>), read |-> energy]
    ELSE EnergyRate(Unwrap(energy), U64Sub(Unwrap(energy), Unwrap(last)[2], checks),
                    timestamp - Unwrap(last)[1], timestamp, checks)

\* PowerOrElse, but the energy sample is taken also when the sensor answers
PowerOrElseAlwaysSamples(power, hwmon, last, timestamp, checks) ==
    LET tracked == PowerFromEnergy(FindNonZero(read_hwmon_files(hwmon, s_energy, s_input,
                                                                 "u64")),
                                   last, timestamp, checks)
    IN  IF power # None THEN [tracked EXCEPT !.ret = Some(Watts(Unwrap(power)))]
        ELSE tracked

PowerOrElse(power, hwmon, last, timestamp, checks) ==
    IF power # None
    THEN [panic |-> FALSE, ret |-> Some(Watts(Unwrap(power))), last |-> last, read |-> None]
    ELSE PowerFromEnergy(FindNonZero(read_hwmon_files(hwmon, s_energy, s_input, "u64")),
                         last, timestamp, checks)

get_power_usage(hwmon, last, timestamp, checks) ==
    PowerOrElse(read_hwmon_file(hwmon, s_power, s_input, "u64"), hwmon, last, timestamp, checks)

(***************************************************************************)
(* The memory-region query.  query is None when the ioctl fails or returns *)
(* nothing, else Some(the list of regions).  The sizes of the model are    *)
(* far below 2^U64Bits, so the sums themselves never overflow.             *)
(***************************************************************************)
I915_MEMORY_CLASS_SYSTEM == 0

I915_MEMORY_CLASS_DEVICE == 1

DRM_XE_MEM_REGION_CLASS_SYSMEM == 0

DRM_XE_MEM_REGION_CLASS_VRAM == 1

\* I915Regions, but the unallocated sizes of all classes are summed
RECURSIVE I915RegionsAnyUnallocated(_, _, _)
I915RegionsAnyUnallocated(regions, i, acc) ==
    IF i > Len(regions) THEN acc
    ELSE LET region_info == regions[i]
             device == region_info.memory_class = I915_MEMORY_CLASS_DEVICE
             cpu == device /\ region_info.probed_cpu_visible_size > 0
         IN  I915RegionsAnyUnallocated(regions, i + 1,
                 [total |-> acc.total + (IF device THEN region_info.probed_size ELSE 0),
                  i915_unallocated |-> acc.i915_unallocated + region_info.unallocated_size,
                  cpu_accessible_total |->
                      acc.cpu_accessible_total
                          + (IF cpu THEN region_info.probed_cpu_visible_size ELSE 0),
                  cpu_unallocated |->
                      acc.cpu_unallocated
                          + (IF cpu THEN region_info.unallocated_cpu_visible_size ELSE 0)])

\* the loop over the regions of an i915 query, from region i on
RECURSIVE I915Regions(_, _, _)
I915Regions(regions, i, acc) ==
    IF i > Len(regions) THEN acc
    ELSE LET region_info == regions[i]
             device == region_info.memory_class = I915_MEMORY_CLASS_DEVICE
             cpu == device /\ region_info.probed_cpu_visible_size > 0
         IN  I915Regions(regions, i + 1,
                 [total |-> acc.total + (IF device THEN region_info.probed_size ELSE 0),
                  i915_unallocated |->
                      acc.i915_unallocated + (IF device THEN region_info.unallocated_size ELSE 0),
                  cpu_accessible_total |->
                      acc.cpu_accessible_total
                          + (IF cpu THEN region_info.probed_cpu_visible_size ELSE 0),
                  cpu_unallocated |->
                      acc.cpu_unallocated
                          + (IF cpu THEN region_info.unallocated_cpu_visible_size ELSE 0)])

\* XeRegions, but the regions of every class are summed
RECURSIVE XeRegionsAllClasses(_, _, _)
XeRegionsAllClasses(regions, i, acc) ==
    IF i > Len(regions) THEN acc
    ELSE LET region_info == regions[i]
         IN  XeRegionsAllClasses(regions, i + 1,
                 [total |-> acc.total + region_info.total_size,
                  used |-> acc.used + region_info.used,
                  cpu_accessible_total |->
                      acc.cpu_accessible_total
                          + (IF region_info.cpu_visible_size > 0
                             THEN region_info.cpu_visible_size ELSE 0)])

\* the loop over the regions of an xe query, from region i on
RECURSIVE XeRegions(_, _, _)
XeRegions(regions, i, acc) ==
    IF i > Len(regions) THEN acc
    ELSE LET region_info == regions[i]
             vram == region_info.mem_class = DRM_XE_MEM_REGION_CLASS_VRAM
         IN  XeRegions(regions, i + 1,
                 [total |-> acc.total + (IF vram THEN region_info.total_size ELSE 0),
                  used |-> acc.used + (IF vram THEN region_info.used ELSE 0),
                  cpu_accessible_total |->
                      acc.cpu_accessible_total
                          + (IF vram /\ region_info.cpu_visible_size > 0
                             THEN region_info.cpu_visible_size ELSE 0)])

\* IntelVramInfo, and whether computing it panicked
IntelVramInfo(panic, total, used, cpu_accessible_used, cpu_accessible_total) ==
    [panic |-> panic, total |-> total, used |-> used,
     mem_info |-> [cpu_accessible_used |-> cpu_accessible_used,
                   cpu_accessible_total |-> cpu_accessible_total,
                   resizeable_bar |-> Some(cpu_accessible_total = total)]]

get_vram_info(driver, query, checks) ==
    IF query = None THEN IntelVramInfo(FALSE, 0, 0, 0, 0)
    ELSE IF driver = "I915" THEN
        LET sums == I915Regions(Unwrap(query), 1,
                        [total |-> 0, i915_unallocated |-> 0,
                         cpu_accessible_total |-> 0, cpu_unallocated |-> 0])
            used == IF sums.total > 0
                    THEN U64Sub(sums.total, sums.i915_unallocated, checks)
                    ELSE [panic |-> FALSE, value |-> 0]
            cpu_used == IF sums.cpu_accessible_total > 0
                        THEN U64Sub(sums.cpu_accessible_total, sums.cpu_unallocated, checks)
                        ELSE [panic |-> FALSE, value |-> 0]
        IN  IntelVramInfo(used.panic \/ cpu_used.panic, sums.total, used.value,
                          cpu_used.value, sums.cpu_accessible_total)
    ELSE
        LET sums == XeRegions(Unwrap(query), 1,
                        [total |-> 0, used |-> 0, cpu_accessible_total |-> 0])
        IN  IntelVramInfo(FALSE, sums.total, sums.used, 0, sums.cpu_accessible_total)

\* the VramStats of get_stats: a zero figure is reported as absent
VramStats(vram_info) ==
    [total |-> IF vram_info.total = 0 THEN None ELSE Some(vram_info.total),
     used |-> IF vram_info.used = 0 THEN None ELSE Some(vram_info.used)]

(***************************************************************************)
(* get_stats.  me: the fields of the controller;    hwmon, busy_file and    *)
(* query: what the kernel exports at the time of the call; t_energy and    *)
(* t_busy: the two readings of Instant::now().  The fields are computed in *)
(* the order of the code, so a panic leaves the later tracker as it was.   *)
(***************************************************************************)
PLACEHOLDER_CAP == 100000000

\* the cap read from power*_max, in watts, zero replaced by the placeholder
CapCurrent(cap_file) ==
    IF cap_file = None THEN None
    ELSE IF Unwrap(cap_file) = 0 THEN Some(Watts(PLACEHOLDER_CAP))
    ELSE Some(Watts(Unwrap(cap_file)))

CapMax(rated, cap_current) ==
    IF rated # None /\ rated # Some(0) THEN Some(Watts(Unwrap(rated)))
    ELSE IF cap_current = None THEN None
    ELSE Some(Watts(Unwrap(cap_current).microwatts * 2))

\* DeviceStats, but cap_default is the cap read by this call
DeviceStatsDefaultFollows(me, cap_current, cap_max, power, query, vram_info, busy) ==
    [panic |-> busy.panic,
     stats |-> [power |-> [current |-> power.ret, cap_current |-> cap_current,
                           cap_min |-> Some(Watts(0)), cap_max |-> cap_max,
                           cap_default |-> cap_current],
                vram |-> VramStats(vram_info),
                busy_percent |-> busy.ret],
     last_energy_value |-> power.last,
     last_gpu_busy |-> busy.last,
     polled |-> [energy |-> power.read, gpu_busy |-> busy.read, query |-> query,
                 vram_info |-> Some(vram_info)]]

DeviceStats(me, cap_current, cap_max, power, query, vram_info, busy) ==
    [panic |-> busy.panic,
     stats |-> [power |-> [current |-> power.ret, cap_current |-> cap_current,
                           cap_min |-> Some(Watts(0)), cap_max |-> cap_max,
                           cap_default |-> me.initial_power_cap],
                vram |-> VramStats(vram_info),
                busy_percent |-> busy.ret],
     last_energy_value |-> power.last,
     last_gpu_busy |-> busy.last,
     polled |-> [energy |-> power.read, gpu_busy |-> busy.read, query |-> query,
                 vram_info |-> Some(vram_info)]]

StatsAfterVram(me, cap_current, cap_max, power, query, vram_info, busy_file, t_busy, checks) ==
    DeviceStats(me, cap_current, cap_max, power, query, vram_info,
        IF power.panic \/ vram_info.panic
        THEN [panic |-> TRUE, ret |-> None, last |-> me.last_gpu_busy, read |-> None]
        ELSE get_busy_percent(busy_file, me.last_gpu_busy, t_busy, checks))

StatsAfterCap(me, cap_current, hwmon, busy_file, query, t_energy, t_busy, checks) ==
    StatsAfterVram(me, cap_current,
        CapMax(read_hwmon_file(hwmon, s_power, s_rated_max, "f64"), cap_current),
        get_power_usage(hwmon, me.last_energy_value, t_energy, checks),
        query, get_vram_info(me.driver_type, query, checks),
        busy_file, t_busy, checks)

get_stats(me, hwmon, busy_file, query, t_energy, t_busy, checks) ==
    StatsAfterCap(me, CapCurrent(read_hwmon_file(hwmon, s_power, s_max, "f64")),
                  hwmon, busy_file, query, t_energy, t_busy, checks)

(***************************************************************************)
(* What the kernel may export when get_stats is called.                    *)
(***************************************************************************)
\* the directory holding the files of a set of <<name, text>> pairs
DirOf(entries) ==
    [name \in {e[1] : e \in entries} |-> (CHOOSE e \in entries : e[1] = name)[2]]

File(name, text) == IF text = None THEN {} ELSE {<<name, Unwrap(text)>>}

PowerTexts == {None, Some(Attr(3))}

EnergyTexts == {None, Some(Garbage)} \cup {Some(Attr(e)) : e \in EnergyCounters}

\* the hwmon directories the trackers are polled with
TrackerDirs ==
    {None} \cup
    {Some(DirOf(File(power1_input, p) \cup File(energy1_input, e))) :
        p \in PowerTexts, e \in EnergyTexts}

l_rps_active == <<"R", "P", "S", " ", "a", "c", "t", "i", "v", "e", "?", " ", "y", "e", "s">>

BusyLine(n) == s_gpu_busy \o <<" ", "y", "e", "s", ",", " ">> \o to_string(n) \o s_ms

\* gt0/rps_boost as the kernel writes it: at most one "GPU busy?" line
BusyFiles ==
    {None, Some(<<l_rps_active>>), Some(<<s_gpu_busy>>),
     Some(<<l_rps_active, s_gpu_busy \o <<" ", "y", "e", "s">>>>),
     Some(<<l_rps_active, s_gpu_busy \o <<" ", "y", "e", "s", ",", " ", "-", "m", "s">>>>)}
    \cup {Some(<<l_rps_active, BusyLine(n)>>) : n \in BusyCounters}

I915Region(class, probed, unallocated, cpu_probed, cpu_unallocated) ==
    [memory_class |-> class, probed_size |-> probed, unallocated_size |-> unallocated,
     probed_cpu_visible_size |-> cpu_probed, unallocated_cpu_visible_size |-> cpu_unallocated]

XeRegion(class, total, used, cpu_visible) ==
    [mem_class |-> class, total_size |-> total, used |-> used, cpu_visible_size |-> cpu_visible]

\* the regions the kernel reports: no more is unallocated (or used) than
\* the region holds, and the CPU-visible part is none or all of the region
I915DeviceRegions ==
    {I915Region(I915_MEMORY_CLASS_DEVICE, s[1], s[2], cpu * s[1], cpu * s[2]) :
        s \in {<<0, 0>>, <<1000, 0>>, <<1000, 200>>, <<1000, 1000>>}, cpu \in {0, 1}}

I915SystemRegions ==
    {I915Region(I915_MEMORY_CLASS_SYSTEM, 1000, s, 1000, s) : s \in {0, 200}}

XeVramRegions ==
    {XeRegion(DRM_XE_MEM_REGION_CLASS_VRAM, s[1], s[2], cpu * s[1]) :
        s \in {<<0, 0>>, <<1000, 0>>, <<1000, 800>>, <<1000, 1000>>}, cpu \in {0, 1}}

XeSystemRegions ==
    {XeRegion(DRM_XE_MEM_REGION_CLASS_SYSMEM, 1000, s, 1000) : s \in {200, 1000}}

KernelRegions(driver) ==
    IF driver = "I915" THEN I915DeviceRegions \cup I915SystemRegions
    ELSE XeVramRegions \cup XeSystemRegions

\* the longest list of regions of the model
MaxRegions == 2

RECURSIVE Lists(_, _)
Lists(S, n) ==
    IF n = 0 THEN {<<>>}
    ELSE Lists(S, n - 1) \cup {Append(l, x) : l \in Lists(S, n - 1), x \in S}

\* the results of the memory-region query
VramQueries(driver) == {None} \cup {Some(l) : l \in Lists(KernelRegions(driver), MaxRegions)}

(***************************************************************************)
(* The writes.  A path is the tuple of its components below sysfs_path     *)
(* (".." is the card directory above it); files maps the paths that exist  *)
(* to their text.  A result is Ok or Err(the contexts, outermost first).   *)
(* A write that the kernel rejects leaves the attribute as it was.         *)
(***************************************************************************)
Ok == [ok |-> TRUE, context |-> <<>>]

Err(context) == [ok |-> FALSE, context |-> context]

\* anyhow's .context(msg) on a result
WithContext(result, msg) ==
    IF result.ok THEN result ELSE Err(<<msg>> \o result.context)

FrequencyType == {"Cur", "Act", "Boost", "Min", "Max", "Rp0", "Rpe", "Rpn"}

I915FreqFile(freq) ==
    CASE freq = "Cur" -> "gt_cur_freq_mhz"
      [] freq = "Act" -> "gt_act_freq_mhz"
      [] freq = "Boost" -> "gt_boost_freq_mhz"
      [] freq = "Min" -> "gt_min_freq_mhz"
      [] freq = "Max" -> "gt_max_freq_mhz"
      [] freq = "Rp0" -> "gt_RP0_freq_mhz"
      [] freq = "Rpe" -> "gt_RP1_freq_mhz"
      [] freq = "Rpn" -> "gt_RPn_freq_mhz"

XeFreqFile(freq) ==
    CASE freq = "Cur" -> "cur_freq"
      [] freq = "Act" -> "act_freq"
      [] freq = "Min" -> "min_freq"
      [] freq = "Max" -> "max_freq"
      [] freq = "Rp0" -> "rp0_freq"
      [] freq = "Rpe" -> "rpe_freq"
      [] freq = "Rpn" -> "rpn_freq"

first_tile_gt(me) == IF Len(me.tile_gts) = 0 THEN None ELSE Some(me.tile_gts[1])

freq_path(me, freq) ==
    IF me.driver_type = "I915" THEN Some(<<"..", I915FreqFile(freq)>>)
    ELSE IF first_tile_gt(me) = None \/ freq = "Boost" THEN None
    ELSE Some(Unwrap(first_tile_gt(me)) \o <<"freq0", XeFreqFile(freq)>>)

read_freq(me, sysfs_files, freq) ==
    IF freq_path(me, freq) = None THEN None
    ELSE read_file(sysfs_files, Unwrap(freq_path(me, freq)), "u64")

\* io_ok: whether fs::write succeeds
\* write_file without the test of file_path.exists(): fs::write alone, which
\* creates the file
WriteWithoutExists(files, path, contents, io_ok) ==
    IF ~io_ok
    THEN [result |-> Err(<<"Could not write to">>), files |-> files]
    ELSE [result |-> Ok, files |-> (path :> contents) @@ files]

write_file(files, path, contents, io_ok) ==
    IF path \notin DOMAIN files
    THEN [result |-> Err(<<"File does not exist">>), files |-> files]
    ELSE IF ~io_ok
    THEN [result |-> Err(<<"Could not write to">>), files |-> files]
    ELSE [result |-> Ok, files |-> [files EXCEPT ![path] = contents]]

\* the largest i32: a u64 above it wraps to a negative number
I32_MAX == 2147483647

AsI32(v) == IF v <= I32_MAX THEN v ELSE ((v - I32_MAX) - I32_MAX) - 2

\* i32::to_string
i32_to_string(v) == IF v < 0 THEN <<"-">> \o to_string(0 - v) ELSE to_string(v)

(***************************************************************************)
(* fs is the file tree as a call has left it so far: the attribute files   *)
(* (sysfs), the hwmon directory (hwmon: None when the controller has no    *)
(* hwmon_path), the result so far, and writes, the knob writes the call    *)
(* has issued: which knob, the file aimed at, the text, and the outcome.   *)
(***************************************************************************)
Issued(fs, knob, target, contents, result, sysfs_files, hwmon_dir) ==
    [sysfs |-> sysfs_files, hwmon |-> hwmon_dir, result |-> result,
     writes |-> Append(fs.writes, [knob |-> knob, target |-> target,
                                   contents |-> contents, ok |-> result.ok,
                                   error |-> result.context])]

WroteFreq(fs, freq, path, contents, w) ==
    Issued(fs, freq, Some(path), contents,
           WithContext(w.result, "Could not write frequency"), w.files, fs.hwmon)

write_freq(me, fs, freq, value, io_ok) ==
    IF freq_path(me, freq) = None
    THEN Issued(fs, freq, None, i32_to_string(value),
                Err(<<"Frequency info not found">>), fs.sysfs, fs.hwmon)
    ELSE WroteFreq(fs, freq, Unwrap(freq_path(me, freq)), i32_to_string(value),
                   write_file(fs.sysfs, Unwrap(freq_path(me, freq)),
                              i32_to_string(value), io_ok))

WroteHwmon(fs, name, contents, w) ==
    Issued(fs, "power_cap", Some(name), contents, w.result, fs.sysfs, Some(w.files))

\* io: "ok", or "read_dir" when fs::read_dir fails, or "write" when fs::write fails
HwmonWrite(fs, files, contents, io) ==
    IF Len(files) = 0
    THEN Issued(fs, "power_cap", None, contents, Err(<<"File not found">>),
                fs.sysfs, fs.hwmon)
    ELSE WroteHwmon(fs, files[1], contents,
                    write_file(Unwrap(fs.hwmon), files[1], contents, io = "ok"))

write_hwmon_file(fs, file_prefix, file_suffix, contents, io) ==
    IF fs.hwmon = None
    THEN Issued(fs, "power_cap", None, contents, Err(<<"No hwmon available">>),
                fs.sysfs, fs.hwmon)
    ELSE IF io = "read_dir"
    THEN Issued(fs, "power_cap", None, contents, Err(<<"read_dir">>), fs.sysfs, fs.hwmon)
    ELSE HwmonWrite(fs, sort_unstable(HwmonSelect(Unwrap(fs.hwmon), file_prefix, file_suffix)),
                    contents, io)

(***************************************************************************)
(* apply_config and reset_clocks.  io gives, for each knob, whether the    *)
(* kernel accepts the write.                                               *)
(***************************************************************************)
\* (cap * 1_000_000.0) as u64: a cap of whole watts times 10^6 is exact in
\* f64, and the cast saturates at the largest u64
CapMicrowatts(cap) ==
    IF cap.microwatts >= U64Mod THEN U64Mod - 1 ELSE cap.microwatts

\* ApplyMin, but the min clock is written even after the max clock failed
ApplyMinAfterFailure(me, fs, config, io) ==
    IF config.min_core_clock = None THEN fs
    ELSE [write_freq(me, fs, "Min", Unwrap(config.min_core_clock), io.min)
             EXCEPT !.result = IF fs.result.ok THEN WithContext(@, "Could not set min clock")
                               ELSE fs.result]

\* ApplyCap, but an unset power cap is written as zero
ApplyCapAlways(me, fs, config, io) ==
    IF ~fs.result.ok THEN fs
    ELSE [write_hwmon_file(fs, s_power, s_max,
                           to_string(IF config.power_cap = None THEN 0
                                     ELSE CapMicrowatts(Unwrap(config.power_cap))), io.cap)
             EXCEPT !.result = WithContext(@, "Could not set power cap")]

ApplyMax(me, fs, config, io) ==
    IF config.max_core_clock = None THEN fs
    ELSE [write_freq(me, fs, "Max", Unwrap(config.max_core_clock), io.max)
             EXCEPT !.result = WithContext(@, "Could not set max clock")]

ApplyMin(me, fs, config, io) ==
    IF ~fs.result.ok \/ config.min_core_clock = None THEN fs
    ELSE [write_freq(me, fs, "Min", Unwrap(config.min_core_clock), io.min)
             EXCEPT !.result = WithContext(@, "Could not set min clock")]

ApplyCap(me, fs, config, io) ==
    IF ~fs.result.ok \/ config.power_cap = None THEN fs
    ELSE [write_hwmon_file(fs, s_power, s_max,
                           to_string(CapMicrowatts(Unwrap(config.power_cap))), io.cap)
             EXCEPT !.result = WithContext(@, "Could not set power cap")]

apply_config(me, fs, config, io) ==
    ApplyCap(me, ApplyMin(me, ApplyMax(me, fs, config, io), config, io), config, io)

\* ResetMin, but the min clock is left alone once the max clock failed
ResetMinUnlessFailed(me, fs, rpn, io) ==
    IF rpn = None \/ (Len(fs.writes) > 0 /\ ~fs.writes[Len(fs.writes)].ok) THEN fs
    ELSE [write_freq(me, fs, "Min", AsI32(Unwrap(rpn)), io.min) EXCEPT !.result = Ok]

\* the errors of the two writes are logged and dropped
ResetMax(me, fs, rp0, io) ==
    IF rp0 = None THEN fs
    ELSE [write_freq(me, fs, "Max", AsI32(Unwrap(rp0)), io.max) EXCEPT !.result = Ok]

ResetMin(me, fs, rpn, io) ==
    IF rpn = None THEN fs
    ELSE [write_freq(me, fs, "Min", AsI32(Unwrap(rpn)), io.min) EXCEPT !.result = Ok]

ResetAfterMax(me, fs, io) == ResetMin(me, fs, read_freq(me, fs.sysfs, "Rpn"), io)

reset_clocks(me, fs, io) ==
    ResetAfterMax(me, ResetMax(me, fs, read_freq(me, fs.sysfs, "Rp0"), io), io)

(***************************************************************************)
(* Per-process usage records.  The parser (common::fdinfo) is outside the  *)
(* controller's file: it is modelled from its specification, and the      *)
(* order of the emitted counters from what the tests parse_dg2_fdinfo and *)
(* parse_xe_sample_fdinfo assert of it.  A record is the sequence of its  *)
(* lines, each line the text before and the text after the ':'.           *)
(***************************************************************************)
\* DRM_VRAM_KEYS with system memory first
DrmVramKeysSystemFirst == <<"drm-total-system0", "drm-total-local0", "drm-total-vram0">>

DRM_VRAM_KEYS == <<"drm-total-vram0", "drm-total-local0", "drm-total-system0">>

DRM_ENGINES ==
    <<<<"render", "Graphics">>, <<"compute", "Compute">>, <<"video", "Decode">>>>

FdLine(key, value) == [key |-> key, value |-> value]

u_KiB == <<"K", "i", "B">>

u_MiB == <<"M", "i", "B">>

u_ns == <<"n", "s">>

\* the first run of non-space characters of a value, and what follows it
FirstWord(s) ==
    LET v == trim(s)
        spaces == {i \in 1..Len(v) : IsSpace(v[i])}
    IN  IF spaces = {} THEN v
        ELSE SubSeq(v, 1, (CHOOSE i \in spaces : \A j \in spaces : i <= j) - 1)

RestWords(s) ==
    LET v == trim(s)
    IN  trim(SubSeq(v, Len(FirstWord(s)) + 1, Len(v)))

\* a number with one of the units, or with none: the number times the
\* unit's factor; none when the value is malformed
ParseValue(value, n, unit, units) ==
    IF n = None THEN None
    ELSE IF unit = <<>> THEN n
    ELSE IF \E u \in DOMAIN units : units[u][1] = unit
    THEN Some(Unwrap(n) * units[CHOOSE u \in DOMAIN units : units[u][1] = unit][2])
    ELSE None

ParseField(value, kind) ==
    ParseValue(value, parse_u64(FirstWord(value)), RestWords(value),
               IF kind = "memory" THEN <<<<u_KiB, 1024>>, <<u_MiB, 1048576>>>>
               ELSE IF kind = "time" THEN <<<<u_ns, 1>>>>
               ELSE <<>>)

\* the lines of a record that carry key with a well-formed value
LinesOf(data, key, kind) ==
    {i \in DOMAIN data : data[i].key = key /\ ParseField(data[i].value, kind) # None}

\* the value the record gives for key: none when no well-formed line has it
ValueOf(data, key, kind) ==
    IF LinesOf(data, key, kind) = {} THEN None
    ELSE ParseField(data[CHOOSE i \in LinesOf(data, key, kind) :
                             \A j \in LinesOf(data, key, kind) : i <= j].value, kind)

\* memory_used: the value of the first key of vram_keys the record has
RECURSIVE MemoryUsed(_, _)
MemoryUsed(data, vram_keys) ==
    IF Len(vram_keys) = 0 THEN 0
    ELSE IF ValueOf(data, Head(vram_keys), "memory") # None
    THEN Unwrap(ValueOf(data, Head(vram_keys), "memory"))
    ELSE MemoryUsed(data, Tail(vram_keys))

\* the engine has a cycle counter paired with a total-cycles counter
HasCycles(data, name) ==
    /\ ValueOf(data, "drm-cycles-" \o name, "count") # None
    /\ ValueOf(data, "drm-total-cycles-" \o name, "count") # None

\* the counter line i of the record gives for an engine of the list: the
\* cycle count when it is paired, else the nanoseconds
EngineCounter(data, i, engines) ==
    LET cycles == {e \in DOMAIN engines :
                     /\ data[i].key = "drm-cycles-" \o engines[e][1]
                     /\ HasCycles(data, engines[e][1])
                     /\ ParseField(data[i].value, "count") # None}
        time == {e \in DOMAIN engines :
                     /\ data[i].key = "drm-engine-" \o engines[e][1]
                     /\ ~HasCycles(data, engines[e][1])
                     /\ ParseField(data[i].value, "time") # None}
    IN  IF cycles # {}
        THEN <<<<engines[CHOOSE e \in cycles : TRUE][2],
                 Unwrap(ParseField(data[i].value, "count"))>>>>
        ELSE IF time # {}
        THEN <<<<engines[CHOOSE e \in time : TRUE][2],
                 Unwrap(ParseField(data[i].value, "time"))>>>>
        ELSE <<>>

\* total_time: the counters of the configured engines, as the lines of the
\* record give them (parse_dg2_fdinfo: render, video and compute lines give
\* total_time[0] = Graphics, total_time[1] = Decode)
RECURSIVE TotalTime(_, _, _)
TotalTime(data, i, engines) ==
    IF i > Len(data) THEN <<>>
    ELSE EngineCounter(data, i, engines) \o TotalTime(data, i + 1, engines)

\* parse_fdinfo: none for a record without a client id
parse_fdinfo(data, vram_keys, engines) ==
    IF ValueOf(data, "drm-client-id", "count") = None THEN None
    ELSE Some([client_id |-> Unwrap(ValueOf(data, "drm-client-id", "count")),
               memory_used |-> MemoryUsed(data, vram_keys),
               total_time |-> TotalTime(data, 1, engines)])

\* (current - previous) / elapsed wall time as a percentage, clamped to 0..100
Fraction(current, previous, elapsed) ==
    IF current <= previous THEN 0
    ELSE IF ((current - previous) * 100) \div elapsed > 100 THEN 100
    ELSE ((current - previous) * 100) \div elapsed

\* the utilization of a client: none on its first observation, else one
\* fraction per counter, compared by position with the previous snapshot
Utilization(util, last_total_time_map, elapsed) ==
    IF last_total_time_map = None THEN None
    ELSE IF util.client_id \notin DOMAIN Unwrap(last_total_time_map) THEN None
    ELSE LET previous == Unwrap(last_total_time_map)[util.client_id]
         IN  Some([i \in 1..Len(util.total_time) |->
                     <<util.total_time[i][1],
                       Fraction(util.total_time[i][2],
                                IF i <= Len(previous) THEN previous[i][2] ELSE 0,
                                elapsed)>>])

\* the list of one poll, and the map retained for the next: the clients of
\* this poll alone
ProcessList(utils, last_total_time_map, elapsed) ==
    [processes |-> [id \in {u.client_id : u \in utils} |->
                       LET u == CHOOSE u \in utils : u.client_id = id
                       IN  [memory_used |-> u.memory_used, total_time |-> u.total_time,
                            util |-> Utilization(u, last_total_time_map, elapsed)]],
     map |-> Some([id \in {u.client_id : u \in utils} |->
                       (CHOOSE u \in utils : u.client_id = id).total_time])]

Mem(n, unit) == to_string(n) \o <<" ">> \o unit

\* the memory lines of an i915 record, in the order the kernel writes them
Dg2Memory ==
    <<FdLine("drm-total-system0", Mem(272, u_KiB)),
      FdLine("drm-resident-system0", Mem(272, u_KiB)),
      FdLine("drm-total-local0", Mem(21896, u_KiB)),
      FdLine("drm-shared-local0", Mem(4, u_MiB)),
      FdLine("drm-total-vram0", Mem(2, u_MiB))>>

\* the engine lines of an i915 record
Dg2Engines(render) ==
    <<FdLine("drm-engine-render", Mem(render, u_ns)),
      FdLine("drm-engine-copy", Mem(0, u_ns)),
      FdLine("drm-engine-video", Mem(0, u_ns)),
      FdLine("drm-engine-capacity-video", to_string(2)),
      FdLine("drm-engine-compute", Mem(0, u_ns))>>

RECURSIVE Reversed(_)
Reversed(s) == IF Len(s) = 0 THEN <<>> ELSE Append(Reversed(Tail(s)), Head(s))

RECURSIVE Without(_, _)
Without(data, keys) ==
    IF Len(data) = 0 THEN <<>>
    ELSE (IF Head(data).key \in keys THEN <<>> ELSE <<Head(data)>>)
         \o Without(Tail(data), keys)

\* the records of client 1261 on i915 (the record of parse_dg2_fdinfo and
\* its variants): some of the total-memory keys absent, the lines in the
\* kernel's order or in the opposite one, the compute counter absent
Dg2Records ==
    {<<FdLine("drm-driver", <<"i", "9", "1", "5">>), FdLine("drm-client-id", to_string(1261))>>
       \o Without(IF variant = "reversed"
                  THEN Reversed(Dg2Memory \o Dg2Engines(render))
                  ELSE Dg2Memory \o Dg2Engines(render),
                  absent \cup (IF variant = "no_compute" THEN {"drm-engine-compute"}
                               ELSE {})) :
        absent \in {{}, {"drm-total-vram0"}, {"drm-total-local0"},
                    {"drm-total-vram0", "drm-total-local0"},
                    {"drm-total-vram0", "drm-total-local0", "drm-total-system0"}},
        variant \in {"dg2", "reversed", "no_compute"},
        render \in {20, 40}}

\* the record of client 3 on xe (parse_xe_sample_fdinfo)
XeRecord ==
    <<FdLine("drm-driver", <<"x", "e">>), FdLine("drm-client-id", to_string(3)),
      FdLine("drm-total-system", to_string(0)),
      FdLine("drm-total-gtt", Mem(192, u_KiB)),
      FdLine("drm-total-vram0", Mem(23992, u_KiB)),
      FdLine("drm-shared-vram0", Mem(16, u_MiB)),
      FdLine("drm-cycles-rcs", to_string(28)),
      FdLine("drm-total-cycles-rcs", to_string(76))>>

\* a handle that is no DRM client
NoClientRecord == <<FdLine("pos", to_string(0)), FdLine("flags", to_string(2100002))>>

\* the records of the model, and what parse_fdinfo makes of each with the
\* keys and the engines process_list passes
FdinfoRecords == Dg2Records \cup {XeRecord, NoClientRecord}

ParsedFdinfo ==
    [data \in FdinfoRecords |-> parse_fdinfo(data, DRM_VRAM_KEYS, DRM_ENGINES)]

\* read_process_list over the records found, each parsed with the keys and
\* the engines of the caller; a record that does not parse is skipped
read_process_list(found, parsed, last_total_time_map, elapsed) ==
    ProcessList({Unwrap(parsed[data]) : data \in {d \in found : parsed[d] # None}},
                last_total_time_map, elapsed)

\* process_list, but with an empty map in place of last_drm_util
ProcessListForgetful(last_drm_util_map, found, elapsed) ==
    read_process_list(found, ParsedFdinfo, None, elapsed)

process_list(last_drm_util_map, found, elapsed) ==
    read_process_list(found, ParsedFdinfo, last_drm_util_map, elapsed)

(***************************************************************************)
(* The state.                                                              *)
(***************************************************************************)
VARIABLES
    overflow_checks,    \* whether the build has overflow checks
    driver_type,        \* "I915" or "Xe"
    last_gpu_busy,      \* Cell<Option<(Instant, u64)>>
    last_energy_value,  \* Cell<Option<(Instant, u64)>>
    initial_power_cap,  \* Option<f64>
    now,                \* the last reading of the monotonic clock
    pc,                 \* "new": get_stats of the constructor is still to run;
                        \* "ready": constructed; "panicked": the process is gone
    stats,              \* the DeviceStats the last get_stats returned
    polled              \* what the last get_stats obtained: the two counters,
                        \* the result of the memory-region query and the
                        \* IntelVramInfo computed from it

VARIABLES
    tile_gts,           \* Vec<PathBuf>: the gt directories, sorted
    sysfs,              \* the attribute files below the card: path -> text
    hwmon,              \* None, or Some(the hwmon directory: name -> text)
    call,               \* the last apply_config or reset_clocks, with its config
    result,             \* what that call returned
    writes              \* the knob writes that call issued, in order

VARIABLES
    hwmon_entries,      \* the names of the children of the device's hwmon
                        \* directory when new listed it
    hwmon_path,         \* Option<PathBuf>: the child new has chosen
    listing,            \* the last call of read_hwmon_files and what it yielded
    temps               \* the last call of get_temperatures and what it returned

statsVars ==
    <<overflow_checks, driver_type, last_gpu_busy, last_energy_value,
      initial_power_cap, now, pc, stats, polled>>

configVars == <<tile_gts, sysfs, hwmon, call, result, writes>>

VARIABLES
    last_drm_util,      \* RefCell<Option<DrmUtilMap>>
    fdinfos,            \* the records the last call of process_list has read
    processes           \* the ProcessList that call returned

hwmonVars == <<hwmon_entries, hwmon_path, listing, temps>>

\* the software page of the GUI
VARIABLES
    device_info,            \* SoftwarePage::device_info: Option<Arc<DeviceInfo>>
    vulkan_driver_selector, \* the model of the selector: variants, active_index
    selector_inbox,         \* the messages emitted to the selector, not yet applied
    selection_changed,      \* SelectionChanged messages forwarded, not yet handled
    vulkan_stack            \* what the page did with selected_vulkan_info last

processVars == <<last_drm_util, fdinfos, processes>>

guiVars == <<device_info, vulkan_driver_selector, selector_inbox, selection_changed,
             vulkan_stack>>

vars == <<statsVars, configVars, hwmonVars, processVars, guiVars>>

self == [driver_type |-> driver_type, tile_gts |-> tile_gts,
         last_gpu_busy |-> last_gpu_busy,
         last_energy_value |-> last_energy_value, initial_power_cap |-> initial_power_cap]

NoStats ==
    [power |-> [current |-> None, cap_current |-> None, cap_min |-> None,
                cap_max |-> None, cap_default |-> None],
     vram |-> [total |-> None, used |-> None],
     busy_percent |-> None]

NoConfig == [max_core_clock |-> None, min_core_clock |-> None, power_cap |-> None]

NoCall == [op |-> "none", config |-> NoConfig]

(***************************************************************************)
(* The software page of the GUI (lact-gui, software_page.rs).  The page    *)
(* holds the device info and a selector component; what it emits to the    *)
(* selector is applied when the selector handles the message.              *)
(***************************************************************************)
MaxInstances == 2

MaxPending == 2

\* Option<String>::as_deref().unwrap_or_default()
unwrap_or_default(name) == IF name = None THEN "" ELSE Unwrap(name)

\* format!("{} ({})", info.device_name, driver name)
DriverLabel(info) ==
    info.device_name \o " (" \o unwrap_or_default(info.driver.name) \o ")"

\* the loop of update that pushes one name per Vulkan instance
VulkanDrivers(info) ==
    [i \in DOMAIN info.vulkan_instances |-> DriverLabel(info.vulkan_instances[i])]

\* selected_driver: Some(0), but also for an empty list
SelectedDriverZero(vulkan_drivers) == Some(0)

SelectedDriver(vulkan_drivers) == IF Len(vulkan_drivers) = 0 THEN None ELSE Some(0)

\* SimpleComboBoxMsg::UpdateData(SimpleComboBox { variants, active_index })
UpdateData(info) ==
    [variants |-> VulkanDrivers(info),
     active_index |-> SelectedDriver(VulkanDrivers(info))]

\* slice::get with a zero-based index
get(instances, idx) ==
    IF idx < Len(instances) THEN Some(instances[idx + 1]) ELSE None

selected_vulkan_info(selector_model, info) ==
    IF selector_model.active_index = None \/ info = None THEN None
    ELSE get(Unwrap(info).vulkan_instances, Unwrap(selector_model.active_index))

\* the i-th Vulkan instance of a device
VulkanInfo(device, i) ==
    [device_name |-> device.name, api_version |-> i, driver |-> [name |-> device.driver]]

\* the device infos the daemon reports: a card with a named driver or a
\* software device without one, with 0..MaxInstances Vulkan instances
DeviceInfos ==
    {[vulkan_instances |-> [i \in 1..n |-> VulkanInfo(device, i)]] :
        device \in {[name |-> "Arc A770", driver |-> Some("anv")],
                    [name |-> "llvmpipe", driver |-> None]},
        n \in 0..MaxInstances}

NoTemps == [called |-> FALSE, hwmon |-> None, map |-> <<>>]

NoListing ==
    [file_prefix |-> <<>>, file_suffix |-> <<>>, T |-> "none", hwmon |-> None,
     listed |-> FALSE, files |-> <<>>]

\* the struct as IntelGpuController::new builds it, before its get_stats;
\* no hwmon directory, no gt directory and no attribute file
Init ==
    /\ last_drm_util = None
    /\ fdinfos = {}
    /\ processes = <<>>
    /\ hwmon_entries = {}
    /\ hwmon_path = None
    /\ listing = NoListing
    /\ temps = NoTemps
    /\ device_info = None
    /\ vulkan_driver_selector = [variants |-> <<>>, active_index |-> None]
    /\ selector_inbox = <<>>
    /\ selection_changed = 0
    /\ vulkan_stack = [by |-> "init", info |-> None]
    /\ tile_gts = <<>>
    /\ sysfs = <<>>
    /\ hwmon = None
    /\ call = NoCall
    /\ result = Ok
    /\ writes = <<>>
    /\ overflow_checks \in BOOLEAN
    /\ driver_type \in {"I915", "Xe"}
    /\ last_gpu_busy = None
    /\ last_energy_value = None
    /\ initial_power_cap = None
    /\ now = 0
    /\ pc = "new"
    /\ stats = NoStats
    /\ polled = [energy |-> None, gpu_busy |-> None, query |-> None, vram_info |-> None]

\* the fields and the results after a call of get_stats that came to r at
\* instant t
PolledStats(r, t, next_pc, is_new) ==
    /\ last_energy_value' = r.last_energy_value
    /\ last_gpu_busy' = r.last_gpu_busy
    /\ polled' = r.polled
    /\ now' = t
    /\ pc' = IF r.panic THEN "panicked" ELSE next_pc
    /\ stats' = IF r.panic THEN stats ELSE r.stats
    /\ initial_power_cap' =
           IF is_new /\ ~r.panic
           THEN (IF r.stats.power.cap_current = Some(Watts(0)) THEN None
                 ELSE r.stats.power.cap_current)
           ELSE initial_power_cap
    /\ UNCHANGED <<overflow_checks, driver_type>>

\* the state after a call of get_stats: it writes no file
Polled(r, t, next_pc, is_new) ==
    /\ PolledStats(r, t, next_pc, is_new)
    /\ UNCHANGED <<configVars, hwmonVars, processVars, guiVars>>

\* one evaluation of get_stats, with what it reads drawn from the inputs
Poll(dirs, busy_files, queries, instants, next_pc, is_new) ==
    \E dir \in dirs, busy_file \in busy_files, query \in queries,
       t_energy \in instants, t_busy \in instants :
        /\ now <= t_energy
        /\ t_energy <= t_busy
        /\ Polled(get_stats(self, dir, busy_file, query, t_energy, t_busy, overflow_checks),
                  t_busy, next_pc, is_new)

\* the end of IntelGpuController::new
New ==
    /\ pc = "new"
    /\ Poll(TrackerDirs, BusyFiles, {None}, Instants, "ready", TRUE)

GetStats ==
    /\ pc = "ready"
    /\ Poll(TrackerDirs, BusyFiles, {None}, Instants, "ready", FALSE)

Next == New \/ GetStats

Spec == Init /\ [][Next]_vars

\* the same controller where only the memory-region query answers
NewVram ==
    /\ pc = "new"
    /\ Poll({None}, {None}, VramQueries(driver_type), {0}, "ready", TRUE)

GetStatsVram ==
    /\ pc = "ready"
    /\ Poll({None}, {None}, VramQueries(driver_type), {0}, "ready", FALSE)

NextVram == NewVram \/ GetStatsVram

SpecVram == Init /\ [][NextVram]_vars

(***************************************************************************)
(* The controller and the file tree it writes.                             *)
(***************************************************************************)
gt0 == <<"tile0", "gt0">>

hwmon0 == <<"h", "w", "m", "o", "n", "0">>

hwmon1 == <<"h", "w", "m", "o", "n", "1">>

\* the attribute files of the card: each knob missing or holding a clock
FreqFiles(me) ==
    IF freq_path(me, "Max") = None THEN {<<>>}
    ELSE {DirOf(File(Unwrap(freq_path(me, "Max")), max)
                \cup File(Unwrap(freq_path(me, "Min")), min)
                \cup File(Unwrap(freq_path(me, "Rp0")), rp0)
                \cup File(Unwrap(freq_path(me, "Rpn")), rpn)) :
            max \in {None, Some(Attr(1100))}, min \in {None, Some(Attr(400))},
            rp0 \in {None, Some(Garbage), Some(Attr(1200))},
            rpn \in {None, Some(Attr(300))}}

\* the hwmon directories: none, one without a cap file, one with power1_max,
\* and one that also has power1_rated_max
HwmonDirs ==
    {None, Some(DirOf({<<energy1_input, Attr(1)>>})),
     Some(DirOf({<<power1_max, Attr(500000)>>})),
     Some(DirOf({<<power1_max, Attr(500000)>>, <<power1_rated_max, Attr(900000)>>}))}

Configs ==
    [max_core_clock : {None, Some(900)}, min_core_clock : {None, Some(600)},
     power_cap : {None, Some(Watts(1000000))}]

IoOutcomes == [max : BOOLEAN, min : BOOLEAN, cap : {"ok", "read_dir", "write"}]

\* a constructed controller: new has found the directories, and its
\* get_stats has read the cap
InitConfig ==
    /\ last_drm_util = None
    /\ fdinfos = {}
    /\ processes = <<>>
    /\ overflow_checks = FALSE      \* the writes do no u64 arithmetic
    /\ driver_type \in {"I915", "Xe"}
    /\ tile_gts \in {<<>>, <<gt0>>}
    /\ driver_type = "I915" => tile_gts = <<>>
    /\ sysfs \in FreqFiles([driver_type |-> driver_type, tile_gts |-> tile_gts])
    /\ hwmon \in HwmonDirs
    /\ hwmon_entries = (IF hwmon = None THEN {} ELSE {hwmon0})
    /\ hwmon_path = (IF hwmon = None THEN None ELSE Some(hwmon0))
    /\ listing = NoListing
    /\ temps = NoTemps
    /\ device_info = None
    /\ vulkan_driver_selector = [variants |-> <<>>, active_index |-> None]
    /\ selector_inbox = <<>>
    /\ selection_changed = 0
    /\ vulkan_stack = [by |-> "init", info |-> None]
    /\ call = NoCall
    /\ result = Ok
    /\ writes = <<>>
    /\ last_gpu_busy = None
    /\ last_energy_value = None
    /\ initial_power_cap = CapCurrent(read_hwmon_file(hwmon, s_power, s_max, "f64"))
    /\ now = 0
    /\ pc = "ready"
    /\ stats = NoStats
    /\ polled = [energy |-> None, gpu_busy |-> None, query |-> None, vram_info |-> None]

\* the state after a call that left the file tree as fs
Called(fs, op, config) ==
    /\ sysfs' = fs.sysfs
    /\ hwmon' = fs.hwmon
    /\ result' = fs.result
    /\ writes' = fs.writes
    /\ call' = [op |-> op, config |-> config]
    /\ UNCHANGED <<statsVars, tile_gts, hwmonVars, processVars, guiVars>>

Entry == [sysfs |-> sysfs, hwmon |-> hwmon, result |-> Ok, writes |-> <<>>]

ApplyConfig ==
    /\ pc = "ready"
    /\ \E config \in Configs, io \in IoOutcomes :
           Called(apply_config(self, Entry, config, io), "apply_config", config)

ResetClocks ==
    /\ pc = "ready"
    /\ \E io \in IoOutcomes :
           /\ io.cap = "ok"
           /\ Called(reset_clocks(self, Entry, io), "reset_clocks", NoConfig)

NextConfig == ApplyConfig \/ ResetClocks

SpecConfig == InitConfig /\ [][NextConfig]_vars

\* ---------------------------------------------------------------------------
\* The hwmon directory: discovery in new, listings, the cap write, polls

\* the contents a hwmon directory of the card can have
HwmonContents ==
    {DirOf({}),
     DirOf({<<temp1_input, Attr(45)>>, <<temp2_input, Attr(50)>>, <<temp1_crit, Attr(99)>>}),
     DirOf({<<temp1_input, Garbage>>, <<temp2_input, Attr(50)>>}),
     DirOf({<<temp10_input, Attr(60)>>, <<temp1_input, Attr(45)>>, <<temp2_input, Attr(50)>>}),
     DirOf({<<power1_max, Attr(500000)>>, <<power1_rated_max, Attr(900000)>>}),
     DirOf({<<power1_max, Garbage>>, <<power2_max, Attr(500000)>>}),
     DirOf({<<power1_max, Attr(0)>>}),
     DirOf({<<power1_max, Garbage>>}),
     DirOf({<<power1_max_alarm, Attr(1)>>}),
     DirOf({<<power1_input, Attr(3)>>, <<energy1_input, Attr(2)>>}),
     DirOf({<<energy1_input, Attr(0)>>, <<energy2_input, Attr(2)>>}),
     DirOf({<<energy1_input, Attr(0)>>})}

\* the children of <sysfs_path>/hwmon: none, one, or two
HwmonTrees ==
    {DirOf({})}
    \cup {DirOf({<<hwmon0, d>>}) : d \in HwmonContents}
    \cup {DirOf({<<hwmon0, DirOf({<<power1_max, Attr(500000)>>})>>,
                 <<hwmon1, DirOf({<<temp1_input, Attr(45)>>})>>})}

\* the orders in which fs::read_dir can yield the names of a directory
RECURSIVE ReadDirOrders(_)
ReadDirOrders(names) ==
    IF names = {} THEN {<<>>}
    ELSE UNION {{<<n>> \o rest : rest \in ReadDirOrders(names \ {n})} : n \in names}

\* the listings the controller asks for
HwmonCalls ==
    {<<s_power, s_input, "u64">>, <<s_energy, s_input, "u64">>, <<s_temp, s_input, "f32">>,
     <<s_power, s_max, "f64">>, <<s_power, s_rated_max, "f64">>}

\* new: the first entry read_dir yields for <sysfs_path>/hwmon becomes
\* hwmon_path (none when the directory is missing or empty, or the entry is
\* an error), then the constructor's get_stats reads the cap
NewHwmon ==
    /\ pc = "new"
    /\ \E tree \in HwmonTrees :
       \E first \in {None} \cup {Some(n) : n \in DOMAIN tree} :
           LET found == IF first = None THEN None ELSE Some(tree[Unwrap(first)])
           IN  /\ hwmon_entries' = DOMAIN tree
               /\ hwmon_path' = first
               /\ hwmon' = found
               /\ PolledStats(get_stats(self, found, None, None, 0, 0, overflow_checks), 0,
                              "ready", TRUE)
    /\ UNCHANGED <<tile_gts, sysfs, call, result, writes, listing, temps, processVars, guiVars>>

\* one call of read_hwmon_files: read_dir fails, or yields the names of the
\* directory in some order
ReadHwmonFiles ==
    /\ pc = "ready"
    /\ \E c \in HwmonCalls, read_dir_ok \in BOOLEAN :
       \E entries \in ReadDirOrders(IF hwmon = None THEN {} ELSE DOMAIN Unwrap(hwmon)) :
           listing' = [file_prefix |-> c[1], file_suffix |-> c[2], T |-> c[3],
                       hwmon |-> hwmon, listed |-> hwmon # None /\ read_dir_ok,
                       files |-> IF read_dir_ok
                                 THEN read_hwmon_files_listed(entries, hwmon,
                                                              c[1], c[2], c[3])
                                 ELSE <<>>]
    /\ UNCHANGED <<statsVars, configVars, hwmon_entries, hwmon_path, temps, processVars, guiVars>>

\* one call of write_hwmon_file, as apply_config makes it for the cap
WriteHwmonFile ==
    /\ pc = "ready"
    /\ \E cap \in {Watts(700000)}, io \in {"ok", "read_dir", "write"} :
           Called(write_hwmon_file(Entry, s_power, s_max,
                                   to_string(CapMicrowatts(cap)), io),
                  "write_hwmon_file", [NoConfig EXCEPT !.power_cap = Some(cap)])

GetStatsHwmon ==
    /\ pc = "ready"
    /\ Poll({hwmon}, {None}, {None}, Instants, "ready", FALSE)

NextHwmon == NewHwmon \/ ReadHwmonFiles \/ WriteHwmonFile \/ GetStatsHwmon

SpecHwmon == Init /\ [][NextHwmon]_vars

\* the kernel between two calls: a sensor file reads another value
KernelUpdate ==
    /\ pc = "ready"
    /\ hwmon # None
    /\ \E name \in DOMAIN Unwrap(hwmon) \cap {power1_input, energy1_input, energy2_input} :
       \E text \in IF name = power1_input THEN {Attr(3), Garbage}
                    ELSE {Attr(e) : e \in EnergyCounters} :
           hwmon' = Some([Unwrap(hwmon) EXCEPT ![name] = text])
    /\ UNCHANGED <<statsVars, tile_gts, sysfs, call, result, writes, hwmonVars, processVars, guiVars>>

\* the power cap over the life of a controller: new, then get_stats,
\* apply_config and reset_clocks in any order
NextCap == NewHwmon \/ GetStatsHwmon \/ ApplyConfig \/ ResetClocks

SpecCap == Init /\ [][NextCap]_vars

\* ---------------------------------------------------------------------------
\* The temperature sensors: new, then calls of get_temperatures

Edge == <<"e", "d", "g", "e", "\n">>

Junction == <<"j", "u", "n", "c", "t", "i", "o", "n", "\n">>

\* the files of one sensor: temp<N>_input missing, a number or no number,
\* temp<N>_label missing, a name, or not readable
SensorFiles(input, millidegrees) ==
    {File(input, text) \cup File(Unwrap(strip_suffix(input, s_input)) \o s_label, label) :
        text \in {None, Some(Attr(millidegrees)), Some(Garbage)},
        label \in {None, Some(Edge), Some(Junction), Some(NotUtf8)}}

\* hwmon directories with up to three sensors
TempContents ==
    {DirOf(a \cup b \cup c) : a \in SensorFiles(temp1_input, 45000),
                              b \in SensorFiles(temp2_input, 50000),
                              c \in SensorFiles(temp10_input, 60000)}

\* new on a card whose hwmon directory holds temperature sensors
NewTemps ==
    /\ pc = "new"
    /\ \E dir \in TempContents :
           /\ hwmon_entries' = {hwmon0}
           /\ hwmon_path' = Some(hwmon0)
           /\ hwmon' = Some(dir)
           /\ PolledStats(get_stats(self, Some(dir), None, None, 0, 0, overflow_checks), 0,
                          "ready", TRUE)
    /\ UNCHANGED <<tile_gts, sysfs, call, result, writes, listing, temps, processVars, guiVars>>

\* one call of get_temperatures
GetTemperatures ==
    /\ pc = "ready"
    /\ temps' = [called |-> TRUE, hwmon |-> hwmon, map |-> get_temperatures(hwmon)]
    /\ UNCHANGED <<statsVars, configVars, hwmon_entries, hwmon_path, listing, processVars, guiVars>>

NextTemps == NewTemps \/ GetTemperatures

SpecTemps == Init /\ [][NextTemps]_vars

\* ---------------------------------------------------------------------------
\* The software page: messages to the page, and the selector on its own

\* update(DeviceInfo(info)): the names are emitted to the selector, the info
\* is stored, and the view is refreshed
DeviceInfoMsg ==
    /\ Len(selector_inbox) < MaxPending
    /\ \E info \in DeviceInfos :
           /\ selector_inbox' = Append(selector_inbox, UpdateData(info))
           /\ device_info' = Some(info)
           /\ vulkan_stack' = [by |-> "view",
                               info |-> selected_vulkan_info(vulkan_driver_selector,
                                                             Some(info))]
    /\ UNCHANGED <<statsVars, configVars, hwmonVars, processVars,
                   vulkan_driver_selector, selection_changed>>

\* update(ShowVulkanFeatures): the window of the features is shown for the
\* selected instance, if there is one
ShowVulkanFeatures ==
    /\ vulkan_stack' = [by |-> "features",
                        info |-> selected_vulkan_info(vulkan_driver_selector, device_info)]
    /\ UNCHANGED <<statsVars, configVars, hwmonVars, processVars,
                   device_info, vulkan_driver_selector, selector_inbox, selection_changed>>

\* update(ShowVulkanExtensions): the same for the extensions
ShowVulkanExtensions ==
    /\ vulkan_stack' = [by |-> "extensions",
                        info |-> selected_vulkan_info(vulkan_driver_selector, device_info)]
    /\ UNCHANGED <<statsVars, configVars, hwmonVars, processVars,
                   device_info, vulkan_driver_selector, selector_inbox, selection_changed>>

\* update(SelectionChanged): nothing but the refresh of the view
SelectionChanged ==
    /\ selection_changed > 0
    /\ selection_changed' = selection_changed - 1
    /\ vulkan_stack' = [by |-> "view",
                        info |-> selected_vulkan_info(vulkan_driver_selector, device_info)]
    /\ UNCHANGED <<statsVars, configVars, hwmonVars, processVars,
                   device_info, vulkan_driver_selector, selector_inbox>>

\* the selector handles UpdateData: the data becomes its model
SelectorUpdate ==
    /\ Len(selector_inbox) > 0
    /\ vulkan_driver_selector' = Head(selector_inbox)
    /\ selector_inbox' = Tail(selector_inbox)
    /\ UNCHANGED <<statsVars, configVars, hwmonVars, processVars,
                   device_info, selection_changed, vulkan_stack>>

\* the user picks another variant of the selector, which forwards
\* SelectionChanged
SelectorPick ==
    /\ selection_changed < MaxPending
    /\ \E idx \in 0..(Len(vulkan_driver_selector.variants) - 1) :
           /\ vulkan_driver_selector.active_index # Some(idx)
           /\ vulkan_driver_selector' =
                  [vulkan_driver_selector EXCEPT !.active_index = Some(idx)]
    /\ selection_changed' = selection_changed + 1
    /\ UNCHANGED <<statsVars, configVars, hwmonVars, processVars,
                   device_info, selector_inbox, vulkan_stack>>

NextGui ==
    \/ DeviceInfoMsg
    \/ ShowVulkanFeatures
    \/ ShowVulkanExtensions
    \/ SelectionChanged
    \/ SelectorUpdate
    \/ SelectorPick

\* the page runs in the GUI process: the controller is left as constructed
InitGui == Init /\ driver_type = "Xe" /\ ~overflow_checks

SpecGui == InitGui /\ [][NextGui]_vars

\* the sensors of the hwmon directory: new, polls, and the kernel in between
NextSensors == NewHwmon \/ GetStatsHwmon \/ KernelUpdate

SpecSensors == Init /\ [][NextSensors]_vars

\* ---------------------------------------------------------------------------
\* The processes of the card: new, then calls of process_list

\* the records one poll can find
FdinfoSets ==
    {dg2 \cup other : dg2 \in {{}} \cup {{data} : data \in Dg2Records},
                      other \in {{}, {XeRecord}, {NoClientRecord}}}

\* new, on a card with no hwmon directory
NewProcess ==
    /\ pc = "new"
    /\ Poll({None}, {None}, {None}, {0}, "ready", TRUE)

\* the state after a call of process_list that read found and came to list
Listed(found, list) ==
    /\ fdinfos' = found
    /\ processes' = list.processes
    /\ last_drm_util' = list.map

\* one call of process_list
ProcessListCall ==
    /\ pc = "ready"
    /\ \E found \in FdinfoSets, elapsed \in {PollPeriod} :
           Listed(found, process_list(last_drm_util, found, elapsed))
    /\ UNCHANGED <<statsVars, configVars, hwmonVars, guiVars>>

NextProcess == NewProcess \/ ProcessListCall

SpecProcess == Init /\ [][NextProcess]_vars

(***************************************************************************)
(* The rate trackers, under Spec.  In a step, the unprimed last_gpu_busy   *)
(* and last_energy_value are the samples stored before the poll, polled'   *)
(* holds the counters the poll obtained and stats' what it returned.       *)
(***************************************************************************)
BusyObtained == polled'.gpu_busy # None

EnergyObtained == polled'.energy # None

BusyD == Unwrap(polled'.gpu_busy) - Unwrap(last_gpu_busy)[2]

BusyE == Unwrap(last_gpu_busy')[1] - Unwrap(last_gpu_busy)[1]

EnergyD == Unwrap(polled'.energy) - Unwrap(last_energy_value)[2]

EnergyE == Unwrap(last_energy_value')[1] - Unwrap(last_energy_value)[1]

\* C1: in both rate trackers a poll whose counter reading is lower than the
\* stored reading returns normally and yields none, so no poll yields a
\* rate computed from a wrapped subtraction.
C1_LowerCounterYieldsNone ==
    [][/\ (last_gpu_busy # None /\ BusyObtained /\ BusyD < 0)
              => (pc' = "ready" /\ stats'.busy_percent = None)
       /\ (last_energy_value # None /\ EnergyObtained /\ EnergyD < 0)
              => (pc' = "ready" /\ stats'.power.current = None)]_vars

\* C2: get_stats never fails: whatever the files and the stored samples
\* are, the call returns a DeviceStats and never panics.
C2_GetStatsNeverFails == pc # "panicked"

\* C3: the first poll of a tracker that obtains a counter reading yields
\* none and stores that reading as the baseline; a poll that emits a rate
\* had a stored previous sample.
C3_FirstSampleYieldsNone ==
    [][/\ (last_gpu_busy = None /\ BusyObtained)
              => /\ pc' = "ready" => stats'.busy_percent = None
                 /\ last_gpu_busy' # None
                 /\ Unwrap(last_gpu_busy')[2] = Unwrap(polled'.gpu_busy)
       /\ (last_energy_value = None /\ EnergyObtained)
              => /\ pc' = "ready" => stats'.power.current = None
                 /\ last_energy_value' # None
                 /\ Unwrap(last_energy_value')[2] = Unwrap(polled'.energy)
       /\ (pc' = "ready" /\ BusyObtained /\ stats'.busy_percent # None)
              => last_gpu_busy # None
       /\ (pc' = "ready" /\ EnergyObtained /\ stats'.power.current # None)
              => last_energy_value # None]_vars

\* both trackers have taken their first sample: each obtained a reading,
\* stored it as the baseline and returned none
C3_BaselinesStored ==
    /\ pc = "ready"
    /\ polled.gpu_busy # None /\ polled.energy # None
    /\ stats.busy_percent = None /\ stats.power.current = None
    /\ last_gpu_busy = Some(<<now, Unwrap(polled.gpu_busy)>>)
    /\ last_energy_value # None
    /\ Unwrap(last_energy_value)[2] = Unwrap(polled.energy)

\* C4: a poll that reads a busy counter D ms above the stored one, E > 0 ms
\* after it, with D <= E, returns the integer part of 100 * D / E.
C4_BusyPercentIsFloor ==
    [][(last_gpu_busy # None /\ BusyObtained /\ pc' = "ready"
            /\ BusyD >= 0 /\ BusyE > 0 /\ BusyD <= BusyE)
          => /\ stats'.busy_percent = Some((100 * BusyD) \div BusyE)
             /\ Unwrap(stats'.busy_percent) \in 0..100]_vars

\* C5: with no direct power sensor, a poll that reads an energy counter D uJ
\* above the stored one, E > 0 ms after it, returns D * 1000 / E microwatts,
\* truncated to a whole microwatt, as watts.
C5_PowerIsMicrowattRate ==
    [][(last_energy_value # None /\ EnergyObtained /\ pc' = "ready"
            /\ EnergyD >= 0 /\ EnergyE > 0)
          => stats'.power.current = Some(Watts((EnergyD * 1000) \div EnergyE))]_vars

(***************************************************************************)
(* The memory-region query, under SpecVram.                                *)
(***************************************************************************)
\* the sum of a field over the regions of one class
RECURSIVE ClassSum(_, _, _, _)
ClassSum(regions, class_field, class, field) ==
    IF regions = <<>> THEN 0
    ELSE (IF Head(regions)[class_field] = class THEN Head(regions)[field] ELSE 0)
         + ClassSum(Tail(regions), class_field, class, field)

HasClass(regions, class_field, class) ==
    \E i \in 1..Len(regions) : regions[i][class_field] = class

\* C9: on both drivers the used memory is never the result of an
\* underflowed subtraction (the call does not panic and used is within
\* 0..total), and get_stats never reports vram.used without vram.total.
C9_UsedNeverUnderflows ==
    /\ pc # "panicked"
    /\ polled.vram_info # None
           => /\ Unwrap(polled.vram_info).used \in 0..Unwrap(polled.vram_info).total
              /\ Unwrap(polled.vram_info).mem_info.cpu_accessible_used
                     \in 0..Unwrap(polled.vram_info).mem_info.cpu_accessible_total
    /\ stats.vram.used # None => stats.vram.total # None

\* an i915 query whose device-class regions hold nothing: the subtraction
\* is skipped and neither figure is reported
C9_EmptyDeviceMemory ==
    /\ pc = "ready" /\ driver_type = "I915"
    /\ polled.query # None
    /\ HasClass(Unwrap(polled.query), "memory_class", I915_MEMORY_CLASS_DEVICE)
    /\ HasClass(Unwrap(polled.query), "memory_class", I915_MEMORY_CLASS_SYSTEM)
    /\ Unwrap(polled.vram_info).total = 0
    /\ Unwrap(polled.vram_info).used = 0
    /\ stats.vram = [total |-> None, used |-> None]

\* what C10 gives for a list of regions: sums over the device class alone
ExpectedVram(driver, regions) ==
    IF driver = "I915"
    THEN LET total == ClassSum(regions, "memory_class", I915_MEMORY_CLASS_DEVICE,
                               "probed_size")
             unallocated == ClassSum(regions, "memory_class", I915_MEMORY_CLASS_DEVICE,
                                     "unallocated_size")
             cpu_total == ClassSum(regions, "memory_class", I915_MEMORY_CLASS_DEVICE,
                                   "probed_cpu_visible_size")
             cpu_unallocated == ClassSum(regions, "memory_class", I915_MEMORY_CLASS_DEVICE,
                                         "unallocated_cpu_visible_size")
         IN  [total |-> total,
              used |-> IF total > 0 THEN total - unallocated ELSE 0,
              cpu_accessible_total |-> cpu_total,
              cpu_accessible_used |-> IF cpu_total > 0 THEN cpu_total - cpu_unallocated ELSE 0]
    ELSE [total |-> ClassSum(regions, "mem_class", DRM_XE_MEM_REGION_CLASS_VRAM, "total_size"),
          used |-> ClassSum(regions, "mem_class", DRM_XE_MEM_REGION_CLASS_VRAM, "used"),
          cpu_accessible_total |->
              ClassSum(regions, "mem_class", DRM_XE_MEM_REGION_CLASS_VRAM, "cpu_visible_size"),
          cpu_accessible_used |-> 0]

\* C10: total is the sum of the probed sizes of the device-class regions,
\* used is total minus the sum of their unallocated sizes when total > 0 and
\* else 0 (on xe, where the kernel reports what is used, the sum of that),
\* and no other class contributes to total, used or the cpu-accessible
\* figures; get_stats reports these figures, a zero as absent.
C10_DeviceRegionsOnly ==
    (pc = "ready" /\ polled.query # None) =>
        LET v == Unwrap(polled.vram_info)
            e == ExpectedVram(driver_type, Unwrap(polled.query))
        IN  /\ v.total = e.total
            /\ v.used = e.used
            /\ v.mem_info.cpu_accessible_total = e.cpu_accessible_total
            /\ v.mem_info.cpu_accessible_used = e.cpu_accessible_used
            /\ stats.vram.total = (IF e.total = 0 THEN None ELSE Some(e.total))
            /\ stats.vram.used = (IF e.used = 0 THEN None ELSE Some(e.used))

\* one device region (probed 1000, unallocated 200) and one system region:
\* total 1000, used 800, nothing cpu-accessible
C10_DevicePlusSystem ==
    /\ pc = "ready" /\ driver_type = "I915"
    /\ polled.query =
           Some(<<I915Region(I915_MEMORY_CLASS_DEVICE, 1000, 200, 0, 0),
                  I915Region(I915_MEMORY_CLASS_SYSTEM, 1000, 200, 1000, 200)>>)
    /\ stats.vram = [total |-> Some(1000), used |-> Some(800)]
    /\ Unwrap(polled.vram_info).mem_info.cpu_accessible_total = 0
    /\ Unwrap(polled.vram_info).mem_info.cpu_accessible_used = 0

(***************************************************************************)
(* apply_config and reset_clocks, under SpecConfig.                        *)
(***************************************************************************)
\* the knobs a config sets, in the order max clock, min clock, power cap
SetKnobs(config) ==
    (IF config.max_core_clock # None THEN <<"Max">> ELSE <<>>)
    \o (IF config.min_core_clock # None THEN <<"Min">> ELSE <<>>)
    \o (IF config.power_cap # None THEN <<"power_cap">> ELSE <<>>)

\* the text a config asks for a knob
KnobText(config, knob) ==
    CASE knob = "Max" -> to_string(Unwrap(config.max_core_clock))
      [] knob = "Min" -> to_string(Unwrap(config.min_core_clock))
      [] knob = "power_cap" -> to_string(Unwrap(config.power_cap).microwatts)

KnobError(knob) ==
    CASE knob = "Max" -> "Could not set max clock"
      [] knob = "Min" -> "Could not set min clock"
      [] knob = "power_cap" -> "Could not set power cap"

\* the text of the file a write aimed at
Written(w) ==
    IF w.knob = "power_cap" THEN Unwrap(hwmon)[Unwrap(w.target)]
    ELSE sysfs[Unwrap(w.target)]

\* the text of a file, None when the file is missing
FileOf(files, path) == IF path \in DOMAIN files THEN Some(files[path]) ELSE None

max_path == Unwrap(freq_path(self, "Max"))

min_path == Unwrap(freq_path(self, "Min"))

\* C6: apply_config writes the knobs its config sets in the order max clock,
\* min clock, power cap; the first write that fails ends the call with that
\* knob's error and no later knob is written; every knob written before it
\* holds its new value.
C6_FailFastInOrder ==
    call.op = "apply_config" =>
        LET knobs == SetKnobs(call.config)
            n == Len(writes)
        IN  /\ n <= Len(knobs)
            /\ \A i \in 1..n : /\ writes[i].knob = knobs[i]
                               /\ writes[i].contents = KnobText(call.config, knobs[i])
                               /\ i < n => writes[i].ok
                               /\ writes[i].ok => Written(writes[i]) = writes[i].contents
            /\ result.ok <=> (n = Len(knobs) /\ \A i \in 1..n : writes[i].ok)
            /\ ~result.ok => /\ n >= 1
                             /\ ~writes[n].ok
                             /\ result.context[1] = KnobError(knobs[n])

\* all three knobs are set, the max clock is written, the min clock fails:
\* the call returns the min clock's error, the max clock holds its new
\* value and the power cap was not written
C6_MinFailsAfterMax ==
    /\ call = [op |-> "apply_config",
               config |-> [max_core_clock |-> Some(900), min_core_clock |-> Some(600),
                           power_cap |-> Some(Watts(1000000))]]
    /\ Len(writes) = 2 /\ writes[1].ok /\ ~writes[2].ok
    /\ result.context[1] = "Could not set min clock"
    /\ sysfs[max_path] = to_string(900)
    /\ hwmon # None /\ FileOf(Unwrap(hwmon), power1_max) = Some(Attr(500000))

\* C7: apply_config writes only the knobs its config sets: an unset knob
\* is never written and its file is left as it was; a config that sets
\* only max_core_clock issues exactly one write, to the max-frequency file,
\* and leaves every other attribute file and the hwmon directory unchanged.
C7_OnlySetKnobsWritten ==
    [][call'.op = "apply_config" =>
        /\ \A i \in 1..Len(writes') :
               \E k \in 1..Len(SetKnobs(call'.config)) :
                   writes'[i].knob = SetKnobs(call'.config)[k]
        /\ \A i, j \in 1..Len(writes') : writes'[i].knob = writes'[j].knob => i = j
        /\ DOMAIN sysfs' = DOMAIN sysfs
        /\ (call'.config.max_core_clock = None /\ freq_path(self, "Max") # None)
               => FileOf(sysfs', max_path) = FileOf(sysfs, max_path)
        /\ (call'.config.min_core_clock = None /\ freq_path(self, "Min") # None)
               => FileOf(sysfs', min_path) = FileOf(sysfs, min_path)
        /\ call'.config.power_cap = None => hwmon' = hwmon
        /\ SetKnobs(call'.config) = <<"Max">>
               => /\ Len(writes') = 1
                  /\ writes'[1].knob = "Max"
                  /\ writes'[1].target = freq_path(self, "Max")
                  /\ \A path \in DOMAIN sysfs :
                         path # max_path => sysfs'[path] = sysfs[path]
                  /\ hwmon' = hwmon]_vars

\* a config with only max_core_clock: one write, the max-frequency file
\* holds the clock, the min-frequency file and the cap file are as before
C7_OnlyMaxWritten ==
    /\ call = [op |-> "apply_config",
               config |-> [max_core_clock |-> Some(900), min_core_clock |-> None,
                           power_cap |-> None]]
    /\ Len(writes) = 1 /\ writes[1].ok /\ result.ok
    /\ sysfs[max_path] = to_string(900)
    /\ FileOf(sysfs, min_path) = Some(Attr(400))
    /\ hwmon # None /\ FileOf(Unwrap(hwmon), power1_max) = Some(Attr(500000))

\* C8: reset_clocks returns Ok; it writes RP0 to the max clock when RP0
\* is readable and then RPn to the min clock when RPn is readable, whether
\* or not the first write failed; when both writes succeed the max clock
\* reads as RP0 and the min clock as RPn.
C8_ResetIsBestEffort ==
    call.op = "reset_clocks" =>
        LET rp0 == read_freq(self, sysfs, "Rp0")
            rpn == read_freq(self, sysfs, "Rpn")
            n == Len(writes)
        IN  /\ result.ok
            /\ n = (IF rp0 = None THEN 0 ELSE 1) + (IF rpn = None THEN 0 ELSE 1)
            /\ rp0 # None => /\ writes[1].knob = "Max"
                             /\ writes[1].contents = to_string(Unwrap(rp0))
            /\ rpn # None => /\ writes[n].knob = "Min"
                             /\ writes[n].contents = to_string(Unwrap(rpn))
            /\ (n = 2 /\ writes[1].ok /\ writes[2].ok)
                   => /\ read_freq(self, sysfs, "Max") = rp0
                      /\ read_freq(self, sysfs, "Min") = rpn

\* the write of the max clock failed and the min clock was still written
C8_MinResetAfterMaxFailed ==
    /\ call.op = "reset_clocks"
    /\ Len(writes) = 2 /\ ~writes[1].ok /\ writes[2].ok
    /\ read_freq(self, sysfs, "Min") = Some(300)
    /\ read_freq(self, sysfs, "Max") # read_freq(self, sysfs, "Rp0")

\* ---------------------------------------------------------------------------
\* The hwmon listing

StartsWith(name, file_prefix) ==
    Len(name) >= Len(file_prefix) /\ SubSeq(name, 1, Len(file_prefix)) = file_prefix

EndsWith(name, file_suffix) ==
    /\ Len(name) >= Len(file_suffix)
    /\ SubSeq(name, Len(name) - Len(file_suffix) + 1, Len(name)) = file_suffix

\* name is file_prefix, a part without '_', file_suffix
BareInstance(name, file_prefix, file_suffix) ==
    /\ StartsWith(name, file_prefix)
    /\ EndsWith(name, file_suffix)
    /\ Len(name) >= Len(file_prefix) + Len(file_suffix)
    /\ \A i \in (Len(file_prefix) + 1)..(Len(name) - Len(file_suffix)) : name[i] # "_"

\* the text of the file reads as a value of the type asked for
Parses(dir, name, T) == parse(trim(dir[name]), T) # None

ListedPaths == {listing.files[i][2] : i \in DOMAIN listing.files}

Ascending(files) ==
    \A i, j \in DOMAIN files : i < j => PathLess(files[i][2], files[j][2])

\* C11 as stated: a listing of a hwmon directory yields exactly the files
\* whose name is prefix, a part without '_', suffix, in ascending order of
\* their names.
C11_ListsEveryBareInstance ==
    listing.listed =>
        /\ ListedPaths = {name \in DOMAIN Unwrap(listing.hwmon) :
                              BareInstance(name, listing.file_prefix, listing.file_suffix)}
        /\ Ascending(listing.files)

\* C11, amended: a listing of a hwmon directory that read_dir could list
\* yields exactly the files whose name is prefix, a part without '_', suffix
\* and whose text parses as the type asked for, each with its parsed value, in
\* ascending order of their names, whatever the order read_dir yields them in.
C11_ListsParsedBareInstances ==
    listing.listed =>
        LET dir == Unwrap(listing.hwmon)
        IN  /\ ListedPaths = {name \in DOMAIN dir :
                                  /\ BareInstance(name, listing.file_prefix,
                                                  listing.file_suffix)
                                  /\ Parses(dir, name, listing.T)}
            /\ Ascending(listing.files)
            /\ \A i \in DOMAIN listing.files :
                   listing.files[i][1]
                       = Unwrap(parse(trim(dir[listing.files[i][2]]), listing.T))

\* temp1_input, temp2_input and temp1_crit listed for "temp", "_input"
C11_TempInputsListed ==
    /\ listing.listed
    /\ DOMAIN Unwrap(listing.hwmon) = {temp1_input, temp2_input, temp1_crit}
    /\ listing.file_prefix = s_temp
    /\ listing.file_suffix = s_input
    /\ listing.files = <<<<45, temp1_input>>, <<50, temp2_input>>>>

\* ---------------------------------------------------------------------------
\* The cap write against the cap read

\* this step is a call of write_hwmon_file("power", "_max", ..)
IsHwmonWrite ==
    /\ call'.op = "write_hwmon_file"
    /\ \/ <<call, result, writes>>' # <<call, result, writes>>
       \/ \E name \in HwmonSelect(Unwrap(hwmon), s_power, s_max) :
              Unwrap(hwmon')[name] # Unwrap(hwmon)[name]

\* the file whose value read_hwmon_file returns: the first of the listing
FileRead(hwmon_dir, file_prefix, file_suffix, T) ==
    LET files == read_hwmon_files(hwmon_dir, file_prefix, file_suffix, T)
    IN  IF Len(files) = 0 THEN None ELSE Some(files[1][2])

\* C12: the file write_hwmon_file writes is the file whose value
\* read_hwmon_file returns for the same prefix and suffix, and with no hwmon
\* directory or no matching file the write fails and writes nothing.
C12_WritesTheFileRead ==
    [][IsHwmonWrite =>
        LET w == writes'[1]
        IN  /\ w.target # None => w.target = FileRead(hwmon, s_power, s_max, "f64")
            /\ (hwmon = None \/ HwmonSelect(Unwrap(hwmon), s_power, s_max) = {})
                   => ~result'.ok /\ w.target = None /\ hwmon' = hwmon]_vars

\* ---------------------------------------------------------------------------
\* The choice of the hwmon directory

\* C13: the hwmon subdirectory new chooses is the child of the device's hwmon
\* directory with the lowest name, so the choice is a function of the tree.
C13_LowestHwmonChosen ==
    hwmon_path # None =>
        \A name \in hwmon_entries :
            name = Unwrap(hwmon_path) \/ PathLess(Unwrap(hwmon_path), name)

\* ---------------------------------------------------------------------------
\* write_file

\* the innermost error of a failed write
Cause(w) == IF Len(w.error) = 0 THEN "none" ELSE w.error[Len(w.error)]

\* the directory a write of the log is aimed at, as a mapping from names
Tree(w, sysfs_files, hwmon_dir) ==
    IF w.knob # "power_cap" THEN sysfs_files
    ELSE IF hwmon_dir = None THEN <<>> ELSE Unwrap(hwmon_dir)

\* C14: write_file never creates a file.  In every call, a write aimed at a
\* path that does not exist fails with the not-found error and the path still
\* does not exist; a write aimed at a file that exists leaves it holding the
\* given text or fails with the I/O error; and the tree has the same files
\* after the call as before.
C14_WriteNeverCreates ==
    [][/\ DOMAIN sysfs' = DOMAIN sysfs
       /\ DOMAIN Tree([knob |-> "power_cap"], sysfs', hwmon')
              = DOMAIN Tree([knob |-> "power_cap"], sysfs, hwmon)
       /\ \A i \in DOMAIN writes' :
              LET w == writes'[i]
                  path == Unwrap(w.target)
              IN  w.target # None =>
                      IF path \in DOMAIN Tree(w, sysfs, hwmon)
                      THEN \/ w.ok /\ Tree(w, sysfs', hwmon')[path] = w.contents
                           \/ ~w.ok /\ Cause(w) = "Could not write to"
                      ELSE /\ ~w.ok
                           /\ Cause(w) = "File does not exist"
                           /\ path \notin DOMAIN Tree(w, sysfs', hwmon')]_configVars

\* a call has aimed a write at a path that does not exist
C14_MissingFileNotCreated ==
    \E i \in DOMAIN writes :
        /\ writes[i].target # None
        /\ Unwrap(writes[i].target) \notin DOMAIN Tree(writes[i], sysfs, hwmon)
        /\ Cause(writes[i]) = "File does not exist"

\* ---------------------------------------------------------------------------
\* Per-process records

HasKey(data, key) == \E i \in DOMAIN data : data[i].key = key

TextOf(data, key) == data[CHOOSE i \in DOMAIN data : data[i].key = key].value

\* the bytes of a text "<n> KiB" or "<n> MiB"
BytesOf(text) ==
    DigitsNat(SubSeq(text, 1, Len(text) - 4))
        * (IF text[Len(text) - 2] = "K" THEN 1024 ELSE 1024 * 1024)

ClientOf(data) == DigitsNat(TextOf(data, "drm-client-id"))

Clients == {data \in fdinfos : HasKey(data, "drm-client-id")}

\* C15: each record with a client id is listed under that id, with
\* memory_used the bytes of drm-total-vram0 when the record has it, else of
\* drm-total-local0, else of drm-total-system0, else 0: the one key, never a
\* sum (21896 KiB of local0 beside 272 KiB of system0 are 22421504 bytes,
\* 23992 KiB of vram0 are 24567808).
C15_MemoryIsFirstPresentKey ==
    /\ DOMAIN processes = {ClientOf(data) : data \in Clients}
    /\ \A data \in Clients :
           LET memory_used == processes[ClientOf(data)].memory_used
           IN  /\ memory_used
                     = (IF HasKey(data, "drm-total-vram0")
                        THEN BytesOf(TextOf(data, "drm-total-vram0"))
                        ELSE IF HasKey(data, "drm-total-local0")
                        THEN BytesOf(TextOf(data, "drm-total-local0"))
                        ELSE IF HasKey(data, "drm-total-system0")
                        THEN BytesOf(TextOf(data, "drm-total-system0"))
                        ELSE 0)
               /\ (/\ ~HasKey(data, "drm-total-vram0")
                   /\ HasKey(data, "drm-total-local0")) => memory_used = 22421504
               /\ data = XeRecord => memory_used = 24567808

\* client 1261 with local0 and system0 and no vram0, beside client 3
C15_LocalBeforeSystem ==
    /\ XeRecord \in fdinfos
    /\ \E data \in fdinfos :
           /\ ClientOf(data) = 1261
           /\ ~HasKey(data, "drm-total-vram0")
           /\ HasKey(data, "drm-total-local0")
           /\ HasKey(data, "drm-total-system0")
    /\ processes[1261].memory_used = 22421504
    /\ processes[3].memory_used = 24567808

\* the counter the record gives for an engine: 0 when it has no line for it
CounterOf(data, name) ==
    IF HasKey(data, "drm-engine-" \o name)
    THEN DigitsNat(SubSeq(TextOf(data, "drm-engine-" \o name), 1,
                          Len(TextOf(data, "drm-engine-" \o name)) - 3))
    ELSE 0

\* C16: the counters of each listed record are one entry per configured
\* engine, in the order render/Graphics, compute/Compute, video/Decode
\* whatever the order of the record's lines, an engine without a line
\* counting 0.
C16_EnginesInConfiguredOrder ==
    \A data \in Clients :
        processes[ClientOf(data)].total_time
            = <<<<"Graphics", CounterOf(data, "render")>>,
                <<"Compute", CounterOf(data, "compute")>>,
                <<"Decode", CounterOf(data, "video")>>>>

\* ---------------------------------------------------------------------------
\* Utilization across polls

\* the first counter of a listed client
FirstCounter(process) == process.total_time[1][2]

\* C17: in every call of process_list a client has a utilization only if the
\* call before listed it too; a client the call before did not list has its
\* counters and no utilization; a client listed by both whose counter has
\* grown has a utilization with every fraction in 0..100; and the map kept
\* for the next call has the clients of this call alone.
C17_UtilizationNeedsPrecedingPoll ==
    [][/\ last_drm_util' # None
       /\ DOMAIN Unwrap(last_drm_util') = DOMAIN processes'
       /\ \A id \in DOMAIN processes' :
              LET process == processes'[id]
              IN  /\ process.util # None => id \in DOMAIN processes
                  /\ id \notin DOMAIN processes =>
                         /\ process.util = None
                         /\ Unwrap(last_drm_util')[id] = process.total_time
                  /\ (/\ id \in DOMAIN processes
                      /\ Len(process.total_time) > 0
                      /\ Len(processes[id].total_time) > 0
                      /\ FirstCounter(process) > FirstCounter(processes[id])) =>
                         /\ process.util # None
                         /\ Len(Unwrap(process.util)) = Len(process.total_time)
                         /\ \A e \in DOMAIN Unwrap(process.util) :
                                Unwrap(process.util)[e][2] \in 0..100
                         /\ Unwrap(process.util)[1][2] > 0]_processVars

\* client 1261 seen a second time with a grown counter, client 3 for the
\* first time
C17_SecondPollHasFraction ==
    /\ DOMAIN processes = {3, 1261}
    /\ processes[3].util = None
    /\ processes[1261].util # None
    /\ Unwrap(processes[1261].util)[1][2] > 0

\* ---------------------------------------------------------------------------
\* Zero and unknown in the power cap

\* the power*_max files of the directory
CapFiles(hwmon_dir) ==
    IF hwmon_dir = None THEN {} ELSE HwmonSelect(Unwrap(hwmon_dir), s_power, s_max)

IsNumber(text) == Len(text) > 0 /\ \A i \in DOMAIN text : IsDigit(text[i])

\* C18: in the stats of every poll of a directory with one cap file that
\* reads a number, zero included, cap_current is that many microwatts, and
\* cap_current is absent when there is no cap file or its text is no number.
C18_ZeroCapIsReportedAsZero ==
    [][(pc' = "ready" /\ CapFiles(hwmon') \subseteq {power1_max}) =>
        IF CapFiles(hwmon') # {} /\ IsNumber(trim(Unwrap(hwmon')[power1_max]))
        THEN stats'.power.cap_current
                 = Some(Watts(DigitsNat(trim(Unwrap(hwmon')[power1_max]))))
        ELSE stats'.power.cap_current = None]_statsVars

\* ---------------------------------------------------------------------------
\* The rate trackers as state machines

\* a tracker's cell: nothing, or one (timestamp, counter) pair
IsSample(last) ==
    \/ last = None
    \/ /\ Len(last) = 1
       /\ Len(Unwrap(last)) = 2
       /\ Unwrap(last)[1] \in Instants

\* the cell after a poll: the reading taken between then and until, or the
\* cell as it was when the poll obtained no reading
TrackerStep(last, after, reading, then, until) ==
    /\ IsSample(after)
    /\ reading # None =>
           /\ after # None
           /\ Unwrap(after)[2] = Unwrap(reading)
           /\ then <= Unwrap(after)[1] /\ Unwrap(after)[1] <= until
    /\ reading = None => after = last
    /\ last # None => after # None

\* C19: each tracker holds at most one (timestamp, counter) pair; a poll that
\* obtains a reading leaves exactly that reading stored, whatever it
\* returned; a poll that obtains none leaves the pair as it was; a pair once
\* stored is never cleared; and a tracker's pair changes with its own
\* reading alone.
C19_TrackersStoreEveryReading ==
    [][/\ TrackerStep(last_gpu_busy, last_gpu_busy', polled'.gpu_busy, now, now')
       /\ TrackerStep(last_energy_value, last_energy_value', polled'.energy, now, now')]_statsVars

\* a poll that returned neither rate and stored both readings, the busy one
\* replacing an older sample
C19_StoredWithoutRate ==
    /\ pc = "ready"
    /\ now = PollPeriod
    /\ stats.power.current = None
    /\ polled.energy # None
    /\ last_energy_value = Some(<<PollPeriod, Unwrap(polled.energy)>>)
    /\ polled.gpu_busy = Some(BigCount)
    /\ last_gpu_busy = Some(<<PollPeriod, BigCount>>)
    /\ stats.busy_percent # None

\* ---------------------------------------------------------------------------
\* The power sensor before the energy counter

\* the files of the directory named prefix, a part without '_', suffix that
\* read a number
Readable(hwmon_dir, file_prefix, file_suffix) ==
    IF hwmon_dir = None THEN {}
    ELSE {name \in DOMAIN Unwrap(hwmon_dir) :
             /\ BareInstance(name, file_prefix, file_suffix)
             /\ IsNumber(trim(Unwrap(hwmon_dir)[name]))}

NumberIn(hwmon_dir, name) == DigitsNat(trim(Unwrap(hwmon_dir)[name]))

Lowest(names) == CHOOSE name \in names : \A other \in names \ {name} : PathLess(name, other)

\* the energy files that read a number other than zero
NonZeroEnergy(hwmon_dir) ==
    {name \in Readable(hwmon_dir, s_energy, s_input) : NumberIn(hwmon_dir, name) # 0}

\* C20: in every poll that returns, a readable power*_input gives
\* power.current = its value in microwatts as watts and leaves the stored
\* energy sample as it was; with no readable power sensor and no energy file
\* reading other than zero, power.current is none and the sample is as it was;
\* otherwise the sample stored is the reading of the lowest-named energy file
\* that is not zero.
C20_SensorBeforeEnergy ==
    [][pc' = "ready" =>
        IF Readable(hwmon', s_power, s_input) # {}
        THEN /\ stats'.power.current
                    = Some(Watts(NumberIn(hwmon', Lowest(Readable(hwmon', s_power, s_input)))))
             /\ last_energy_value' = last_energy_value
        ELSE IF NonZeroEnergy(hwmon') = {}
        THEN /\ stats'.power.current = None
             /\ last_energy_value' = last_energy_value
        ELSE /\ last_energy_value' # None
             /\ Unwrap(last_energy_value')[2]
                    = NumberIn(hwmon', Lowest(NonZeroEnergy(hwmon')))]_statsVars

\* the sensor answered after an energy sample had been stored, and the energy
\* counter has moved on since
C20_SensorReadSampleKept ==
    /\ pc = "ready"
    /\ hwmon # None
    /\ DOMAIN Unwrap(hwmon) = {power1_input, energy1_input}
    /\ Unwrap(hwmon)[power1_input] = Attr(3)
    /\ Unwrap(hwmon)[energy1_input] = Attr(2)
    /\ stats.power.current = Some(Watts(3))
    /\ now = PollPeriod
    /\ last_energy_value = Some(<<0, 1>>)

\* ---------------------------------------------------------------------------
\* The default power cap

\* C21: new stores the cap_current its own get_stats has read as the default
\* cap (none when it read none); no later call of get_stats, apply_config or
\* reset_clocks changes it, and every DeviceStats returned after construction
\* carries it as power.cap_default, whatever the cap file reads by then.
C21_DefaultCapFixedAtConstruction ==
    [][/\ (pc = "new" /\ pc' = "ready") =>
              initial_power_cap' = stats'.power.cap_current
       /\ pc = "ready" =>
              /\ initial_power_cap' = initial_power_cap
              /\ (pc' = "ready" /\ statsVars' # statsVars) =>
                     stats'.power.cap_default = initial_power_cap]_vars

\* a poll after apply_config has written another cap: the stats carry the new
\* cap as cap_current and the cap of construction as cap_default
C21_DefaultKeptAfterCapWrite ==
    /\ pc = "ready"
    /\ call.op = "apply_config"
    /\ result.ok
    /\ initial_power_cap = Some(Watts(500000))
    /\ stats.power.cap_current = Some(Watts(1000000))
    /\ stats.power.cap_default = Some(Watts(500000))

\* ---------------------------------------------------------------------------
\* The temperature map

\* the temp*_input files get_temperatures selects: the bare instances that
\* read as a number
Selected(dir) ==
    {name \in DOMAIN dir : BareInstance(name, s_temp, s_input) /\ Parses(dir, name, "f32")}

\* temp<N>_label of temp<N>_input
LabelOf(name) == SubSeq(name, 1, Len(name) - Len(s_input)) \o s_label

\* the trimmed text of the label of a sensor, "gpu" when there is none to read
KeyOf(dir, name) ==
    IF LabelOf(name) \in DOMAIN dir /\ dir[LabelOf(name)] # NotUtf8
    THEN trim(dir[LabelOf(name)]) ELSE gpu

\* the last of a set of paths in sorted order
LastOf(names) == CHOOSE n \in names : \A o \in names \ {n} : PathLess(o, n)

\* C22: the keys of the map get_temperatures returns are the label texts of
\* the selected temp*_input files, "gpu" for a file with no readable label;
\* so the map has no more entries than selected files, and the entry of a
\* key holds the reading of the last selected file, in sorted order, among
\* those with that key.
C22_OneEntryPerKeyLastWins ==
    temps.called /\ temps.hwmon # None =>
        LET dir == Unwrap(temps.hwmon)
        IN  /\ DOMAIN temps.map = {KeyOf(dir, name) : name \in Selected(dir)}
            /\ Cardinality(DOMAIN temps.map) <= Cardinality(Selected(dir))
            /\ \A key \in DOMAIN temps.map :
                   LET last == LastOf({name \in Selected(dir) : KeyOf(dir, name) = key})
                   IN  temps.map[key]
                           = [current |-> Some(Celsius(Unwrap(parse(trim(dir[last]), "f32")))),
                              crit |-> None, crit_hyst |-> None]

\* three selected sensors, temp10 labelled edge, temp1 and temp2 without a
\* label: two entries, "gpu" holds the reading of temp2_input
C22_UnlabelledCollapse ==
    /\ temps.called
    /\ temps.hwmon # None
    /\ Selected(Unwrap(temps.hwmon)) = {temp1_input, temp2_input, temp10_input}
    /\ DOMAIN temps.map = {gpu, trim(Edge)}
    /\ temps.map[gpu].current = Some(Celsius(50000))
    /\ temps.map[trim(Edge)].current = Some(Celsius(60000))

\* ---------------------------------------------------------------------------
\* The software page

\* the page has handled a message: the selector is as before and nothing
\* was taken from its inbox
PageStep ==
    /\ vulkan_driver_selector' = vulkan_driver_selector
    /\ Len(selector_inbox') >= Len(selector_inbox)

Emitted == selector_inbox'[Len(selector_inbox')]

\* C23: a DeviceInfo message with n Vulkan instances emits n variants to the
\* selector, with active index 0 when n > 0 and none when n = 0; and whenever
\* the page asks for the selected Vulkan info, with updates of the selector
\* applied or still in flight, it gets none, or the instance of the stored
\* device info at the active index of the selector, which is then within
\* the list of instances.
C23_SelectionWithinStoredInstances ==
    [][/\ Len(selector_inbox') > Len(selector_inbox) =>
              LET n == Len(Unwrap(device_info').vulkan_instances)
              IN  /\ Len(Emitted.variants) = n
                  /\ Emitted.active_index = (IF n > 0 THEN Some(0) ELSE None)
       /\ PageStep =>
              \/ vulkan_stack'.info = None
              \/ /\ vulkan_driver_selector.active_index # None
                 /\ device_info' # None
                 /\ LET idx == Unwrap(vulkan_driver_selector.active_index)
                        instances == Unwrap(device_info').vulkan_instances
                    IN  /\ idx < Len(instances)
                        /\ vulkan_stack'.info = Some(instances[idx + 1])]_vars

\* the selector still shows the second of two variants while the stored
\* device info has one instance and its names are in flight: the page
\* finds no selected Vulkan info
C23_StaleIndexPastTheEnd ==
    /\ vulkan_driver_selector.active_index = Some(1)
    /\ device_info # None
    /\ Len(Unwrap(device_info).vulkan_instances) = 1
    /\ Len(selector_inbox) > 0
    /\ vulkan_stack = [by |-> "view", info |-> None]

====
